---- MODULE Spec2Model ----
(***************************************************************************)
(* Verification model of amplifier-app-cli: the session store              *)
(* (src/amplifier_app_cli/session_store.py), the config merger             *)
(* (src/amplifier_app_cli/agent_config.py) and the provenance tracker      *)
(* (src/amplifier_app_cli/commands/profile.py).                            *)
(*                                                                         *)
(* Spec      one process calling save / load / exists on a store, with the *)
(*           environment faults the code guards against (a failing backup  *)
(*           copy, a failing write, rename or unlink, an interrupt).       *)
(* SpecRound one save of any short transcript on a new store, then loads.  *)
(* SpecRec   the same store with hand edits of the session files between   *)
(*           calls (corruption, deletion), for the recovery protocol.      *)
(* SpecConc  several processes saving one session while another reads it,  *)
(*           every file-system call a step of its own.                     *)
(* SpecMerge an agent overlay validated and merged into a parent config.   *)
(* SpecProv  an inheritance chain of profiles walked by the provenance     *)
(*           tracker, one profile a step.                                  *)
(* SpecLife  sessions created by save and save_profile and removed by      *)
(*           sessions delete and cleanup_old_sessions.                     *)
(* SpecSan   the message sanitizer applied once and again to one message.  *)
(* SpecBackup one process saving its session repeatedly, with a log of its *)
(*           last two saves, for the backup files.                         *)
(* SpecOnce  exactly one save on a new store, then hand edits and loads.   *)
(* SpecChat  the interactive loop (src/amplifier_app_cli/main.py):         *)
(*           prompts, Ctrl-C, the save after a turn.                       *)
(* SpecDelegate agent overlays merged one inside the other.                *)
(* SpecList  saved sessions as exists, list_sessions and cleanup see them. *)
(* SpecRepeat SpecProv over chains with a profile listing a module twice.  *)
(***************************************************************************)
EXTENDS Integers, Sequences, FiniteSets, TLC

(***************************************************************************)
(* Python values.  A value is a record [k, v]: k is the type tag and v the *)
(* payload (a string for scalars, a sequence for a list, a function from   *)
(* key strings for a dict).  "obj" is an object json cannot serialize (a   *)
(* provider SDK block, a datetime); "model" is a message object that has   *)
(* model_dump() (v is the dict it dumps to).                               *)
(***************************************************************************)
PyNone == [k |-> "none", v |-> ""]

PyTrue == [k |-> "bool", v |-> "True"]

PyStr(s) == [k |-> "str", v |-> s]

PyObj(name) == [k |-> "obj", v |-> name]

PyList(items) == [k |-> "list", v |-> items]

PyDict(fields) == [k |-> "dict", v |-> fields]

PyModel(fields) == [k |-> "model", v |-> fields]

EmptyDict == PyDict(<<>>)

Primitive(value) == value.k \in {"none", "bool", "int", "float", "str"}

(***************************************************************************)
(* json.dumps / json.dump and json.loads.  A JSON document is a record     *)
(* [jt, jv] with its own tags; JsonDumpable says whether json.dumps accepts  *)
(* the value (it raises TypeError otherwise).                              *)
(***************************************************************************)
RECURSIVE JsonDumpable(_)
JsonDumpable(value) ==
    CASE Primitive(value) -> TRUE
      [] value.k = "list" -> \A i \in 1..Len(value.v) : JsonDumpable(value.v[i])
      [] value.k = "dict" -> \A key \in DOMAIN value.v : JsonDumpable(value.v[key])
      [] OTHER -> FALSE

RECURSIVE JsonDump(_)
JsonDump(value) ==
    CASE value.k = "none" -> [jt |-> "null", jv |-> ""]
      [] value.k = "bool" -> [jt |-> "boolean", jv |-> value.v]
      [] value.k = "str" -> [jt |-> "string", jv |-> value.v]
      [] value.k = "list" -> [jt |-> "array", jv |-> [i \in 1..Len(value.v) |-> JsonDump(value.v[i])]]
      [] value.k = "dict" ->
            [jt |-> "object", jv |-> [key \in DOMAIN value.v |-> JsonDump(value.v[key])]]

RECURSIVE JsonLoads(_)
JsonLoads(doc) ==
    CASE doc.jt = "null" -> PyNone
      [] doc.jt = "boolean" -> [k |-> "bool", v |-> doc.jv]
      [] doc.jt = "string" -> PyStr(doc.jv)
      [] doc.jt = "array" -> PyList([i \in 1..Len(doc.jv) |-> JsonLoads(doc.jv[i])])
      [] doc.jt = "object" -> PyDict([key \in DOMAIN doc.jv |-> JsonLoads(doc.jv[key])])

\* a line of text that is not JSON ("{ corrupt json", a line cut short)
Garbage == [jt |-> "garbage", jv |-> ""]

\* a line that is empty once stripped
Blank == [jt |-> "blank", jv |-> ""]

(***************************************************************************)
(* SessionStore._sanitize_value and SessionStore._sanitize_message.        *)
(* Python's None is both "the value None" and "could not be sanitized".    *)
(***************************************************************************)
RECURSIVE SanitizeValue(_), SanitizeMessage(_)
SanitizeValue(value) ==
    IF Primitive(value) THEN value
    ELSE IF value.k = "dict" THEN SanitizeMessage(value)
    ELSE IF value.k = "list"
         THEN PyList(SelectSeq([i \in 1..Len(value.v) |-> SanitizeValue(value.v[i])],
                                 LAMBDA item : item.k # "none"))
    ELSE IF JsonDumpable(value) THEN value
    ELSE PyNone

\* When a dict holds both thinking_block (with text) and thinking_text, the
\* hoisted text is the one kept here (Python keeps whichever key comes last).
SanitizeMessage(message) ==
    IF message.k # "dict"
    THEN LET sanitized == SanitizeValue(message)
         IN  IF sanitized.k # "none" THEN sanitized ELSE EmptyDict
    ELSE LET d == message.v
             skipped == {"thinking_block", "content_blocks"}
             hoist == /\ "thinking_block" \in DOMAIN d
                      /\ d["thinking_block"].k = "dict"
                      /\ "text" \in DOMAIN d["thinking_block"].v
             kept == {key \in DOMAIN d \ skipped : SanitizeValue(d[key]).k # "none"}
             keys == kept \cup (IF hoist THEN {"thinking_text"} ELSE {})
         IN  PyDict([key \in keys |->
                        IF hoist /\ key = "thinking_text"
                        THEN d["thinking_block"].v["text"]
                        ELSE SanitizeValue(d[key])])

(***************************************************************************)
(* Session ids are sequences of characters.                                *)
(***************************************************************************)
Whitespace == {" ", "\t", "\n"}

\* "not session_id or not session_id.strip()"
EmptyId(session_id) == \A i \in 1..Len(session_id) : session_id[i] \in Whitespace

\* '"/" in session_id or "\\" in session_id or session_id in (".", "..")'
TraversalId(session_id) ==
    \/ \E i \in 1..Len(session_id) : session_id[i] \in {"/", "\\"}
    \/ session_id \in {<<".">>, <<".", ".">>}

\* an id check without the separator test
DotId(session_id) == EmptyId(session_id) \/ session_id \in {<<".">>, <<".", ".">>}

\* the id check that opens save, load, exists and save_profile
InvalidId(session_id) == EmptyId(session_id) \/ TraversalId(session_id)

GoodIds == {<<"s">>, <<"p", "-", "c">>}

BadIds ==
    {<<>>, <<" ">>, <<".">>, <<".", ".">>, <<".", ".", "/", "x">>, <<"a", "\\", "b">>}

SessionIds == GoodIds \cup BadIds

(***************************************************************************)
(* Messages, transcripts and metadata the callers pass.                    *)
(***************************************************************************)
MaxLen == 2

UserMsg == PyDict([role |-> PyStr("user"), content |-> PyStr("hi")])

\* an assistant turn as providers return it: no text content, a thinking block
AssistantMsg ==
    PyDict([role |-> PyStr("assistant"), content |-> PyNone,
            thinking_block |-> PyDict([text |-> PyStr("hmm"), signature |-> PyObj("sig")])])

SystemMsg == PyDict([role |-> PyStr("system"), content |-> PyStr("instructions")])

DeveloperMsg == PyDict([role |-> PyStr("developer"), content |-> PyStr("context")])

\* an assistant turn that only calls a tool: all of it JSON, content is null
ToolCallMsg ==
    PyDict([role |-> PyStr("assistant"), content |-> PyNone,
            tool_calls |-> PyList(<<PyDict([id |-> PyStr("call-1"), tool |-> PyStr("bash")])>>)])

\* a message object (pydantic) rather than a dict
ModelMsg == PyModel([role |-> PyStr("user"), content |-> PyStr("hi")])

Messages == {UserMsg, AssistantMsg, SystemMsg, DeveloperMsg, ToolCallMsg, ModelMsg}

\* every transcript of at most MaxLen messages
Transcripts == UNION {[1..n -> Messages] : n \in 0..MaxLen}

MaxTurns == 1

RECURSIVE Turns(_)
Turns(n) == IF n = 0 THEN <<>> ELSE <<UserMsg, AssistantMsg>> \o Turns(n - 1)

\* the running conversation of a session: the merged instructions and context
\* files, then the turns
Conversation == <<SystemMsg, DeveloperMsg>> \o Turns(MaxTurns)

\* what the loop passes to save as the session goes on (context.get_messages())
Snapshots == {SubSeq(Conversation, 1, n) : n \in 0..Len(Conversation)}

PlainMeta == PyDict([session_id |-> PyStr("s"), profile |-> PyStr("dev")])

\* metadata of a sub-session: nested config and agent overlay mappings
NestedMeta ==
    PyDict([session_id |-> PyStr("p-c"),
            config |-> PyDict([session |-> PyDict([orchestrator |-> PyStr("loop-basic")]),
                               tools |-> PyList(<<PyDict([module |-> PyStr("tool-fs")])>>)]),
            agent_overlay |-> PyDict([description |-> PyStr("agent")])])

\* metadata holding a value json cannot serialize (a datetime object)
ObjectMeta == PyDict([session_id |-> PyStr("s"), created |-> PyObj("datetime")])

Metadatas == {PlainMeta, NestedMeta, ObjectMeta}

(***************************************************************************)
(* Files.  A file is absent, text (a sequence of lines, each a JSON        *)
(* document, Garbage or Blank), bytes that are not UTF-8, or unreadable    *)
(* (open raises OSError).                                                  *)
(***************************************************************************)
Absent == [kind |-> "absent", lines |-> <<>>]

Text(lines) == [kind |-> "text", lines |-> lines]

BadUtf8 == [kind |-> "badutf8", lines |-> <<>>]

Unreadable == [kind |-> "unreadable", lines |-> <<>>]

TranscriptFile == "transcript.jsonl"

TranscriptBackup == "transcript.jsonl.backup"

MetadataFile == "metadata.json"

MetadataBackup == "metadata.json.backup"

ProfileFile == "profile.md"

FileNames == {TranscriptFile, TranscriptBackup, MetadataFile, MetadataBackup, ProfileFile}

TempPrefixes == {"transcript_", "metadata_"}

EmptyDir == [name \in FileNames |-> Absent]

\* Path.exists()
FileExists(file) == file.kind # "absent"

(***************************************************************************)
(* The write callbacks of _save_transcript and _save_metadata: what each   *)
(* writes to the temp file, and whether it raises on the way.              *)
(***************************************************************************)
\* "message if isinstance(message, dict) else message.model_dump()"
HasMsgDict(message) == message.k \in {"dict", "model"}

MsgRole(message) ==
    IF "role" \in DOMAIN message.v THEN message.v["role"] ELSE PyNone

\* a filter that knows the system role only
SystemRole(message) == MsgRole(message) = PyStr("system")

\* 'msg_dict.get("role") in ("system", "developer")'
InternalRole(message) == MsgRole(message) \in {PyStr("system"), PyStr("developer")}

\* write_transcript raises at this message: no model_dump (AttributeError), or
\* json.dump rejects what the sanitizer returned (TypeError)
MessageRaises(message) ==
    \/ ~HasMsgDict(message)
    \/ ~InternalRole(message) /\ ~JsonDumpable(SanitizeMessage(message))

WriteTranscriptRaises(transcript) ==
    \E i \in 1..Len(transcript) : MessageRaises(transcript[i])

\* the lines write_transcript writes when it does not raise
WriteTranscript(transcript) ==
    LET written == SelectSeq(transcript, LAMBDA message : ~InternalRole(message))
    IN  [i \in 1..Len(written) |-> JsonDump(SanitizeMessage(written[i]))]

WriteMetadataRaises(metadata) == ~JsonDumpable(metadata)

\* "json.dump(metadata, tmp_file, indent=2, ensure_ascii=False)": one document
WriteMetadata(metadata) == <<JsonDump(metadata)>>

(***************************************************************************)
(* Reading the session files: _load_transcript and _load_metadata.         *)
(* A read gives [exc, val]: the exception it raises ("none" when it        *)
(* returns) and the value parsed.                                          *)
(***************************************************************************)
\* "for line in f: line = line.strip(); if line: transcript.append(json.loads(line))"
ReadTranscript(file) ==
    CASE file.kind = "unreadable" -> [exc |-> "OSError", val |-> <<>>]
      [] file.kind = "badutf8" -> [exc |-> "UnicodeDecodeError", val |-> <<>>]
      [] OTHER ->
            IF \E i \in 1..Len(file.lines) : file.lines[i].jt = "garbage"
            THEN [exc |-> "JSONDecodeError", val |-> <<>>]
            ELSE LET docs == SelectSeq(file.lines, LAMBDA line : line.jt # "blank")
                 IN  [exc |-> "none", val |-> [i \in 1..Len(docs) |-> JsonLoads(docs[i])]]

\* "json.load(f)": the file must hold exactly one JSON document
ReadMetadata(file) ==
    CASE file.kind = "unreadable" -> [exc |-> "OSError", val |-> PyNone]
      [] file.kind = "badutf8" -> [exc |-> "UnicodeDecodeError", val |-> PyNone]
      [] OTHER ->
            LET docs == SelectSeq(file.lines, LAMBDA line : line.jt # "blank")
            IN  IF Len(docs) # 1 \/ docs[1].jt = "garbage"
                THEN [exc |-> "JSONDecodeError", val |-> PyNone]
                ELSE [exc |-> "none", val |-> JsonLoads(docs[1])]

\* "except (OSError, json.JSONDecodeError)"
CaughtOnLoad == {"OSError", "JSONDecodeError"}

\* primary, then backup, then the default; an exception the except clause does
\* not name leaves the function
Recover(primary, backup, fromPrimary, fromBackup, default) ==
    IF FileExists(primary) /\ fromPrimary.exc \notin CaughtOnLoad
    THEN fromPrimary
    ELSE IF FileExists(backup) /\ fromBackup.exc \notin CaughtOnLoad
    THEN fromBackup
    ELSE [exc |-> "none", val |-> default]

LoadTranscript(dir) ==
    Recover(dir[TranscriptFile], dir[TranscriptBackup],
            ReadTranscript(dir[TranscriptFile]), ReadTranscript(dir[TranscriptBackup]), <<>>)

RECURSIVE IdString(_)
\* the id as text (session_dir.name)
IdString(session_id) ==
    IF session_id = <<>> THEN "" ELSE Head(session_id) \o IdString(Tail(session_id))

\* datetime.now(UTC).isoformat(): the clock is not modelled
RecoveryTime == PyStr("now")

MinimalMetadata(session_id) ==
    PyDict([session_id |-> PyStr(IdString(session_id)), recovered |-> PyTrue,
            recovery_time |-> RecoveryTime])

LoadMetadata(session_id, dir) ==
    Recover(dir[MetadataFile], dir[MetadataBackup],
            ReadMetadata(dir[MetadataFile]), ReadMetadata(dir[MetadataBackup]),
            MinimalMetadata(session_id))

(***************************************************************************)
(* The store of one process.                                               *)
(*   input   what the behaviour was started with: the session the process  *)
(*           works on and, for a round trip, the arguments of its save     *)
(*   dirs    the session directories that exist under base_dir             *)
(*   files   the four session files of each directory                      *)
(*   temps   the prefixes of the *.tmp files lying in each directory       *)
(*   pc      where the process is: "idle" between calls, or inside save    *)
(*   call    the arguments of the save in progress                         *)
(*   ret     how the last call ended: [op, res, val]                       *)
(***************************************************************************)
VARIABLES input, dirs, files, temps, pc, call, ret

(***************************************************************************)
(* The session directory as concurrent processes see it.                   *)
(*   names   the directory: the inode each file name refers to ("" if the  *)
(*           name is not there)                                            *)
(*   inode   the lines each inode holds                                    *)
(*   wpc     where each saving process is: [prefix, at]                    *)
(*   rpc     where the loading process is: [prefix, at]                    *)
(*   rfd     the inode the loading process has open                        *)
(*   seen    what the loading process found at transcript.jsonl and        *)
(*           metadata.json                                                 *)
(***************************************************************************)
VARIABLES names, inode, wpc, rpc, rfd, seen

conc == <<names, inode, wpc, rpc, rfd, seen>>

\* the session the process works on
Sid == input.session_id

NoCall == [session_id |-> <<>>, transcript |-> <<>>, metadata |-> PyNone]

NoVal == [transcript |-> <<>>, metadata |-> PyNone]

Ret(op, res, val) == [op |-> op, res |-> res, val |-> val]

(***************************************************************************)
(* What the environment does to one _atomic_write call and the backup copy *)
(* before it.  fault: "create" NamedTemporaryFile raises; "write" the      *)
(* callback or flush raises an Exception (disk full); "interrupt" a        *)
(* BaseException (KeyboardInterrupt) arrives during the write; "rename"    *)
(* Path.replace raises.  A failing unlink or backup copy is taken alone or *)
(* with the fault that leads to it.                                        *)
(***************************************************************************)
Faults == {"none", "create", "write", "interrupt", "rename"}

Environments ==
    {env \in [fault : Faults, unlinkFails : BOOLEAN, backupFails : BOOLEAN] :
        /\ env.unlinkFails => env.fault \in {"none", "write", "rename"}
        /\ env.backupFails => env.fault = "none" /\ ~env.unlinkFails}

NoFault == [fault |-> "none", unlinkFails |-> FALSE, backupFails |-> FALSE]

\* a save that makes no backup
NoBackup(dir, target, backup, env) == dir

\* "if transcript_file.exists(): try: shutil.copy2(...) except Exception: warn"
BackupCopy(dir, target, backup, env) ==
    IF FileExists(dir[target]) /\ ~env.backupFails /\ dir[target].kind # "unreadable"
    THEN [dir EXCEPT ![backup] = dir[target]]
    ELSE dir

\* the exception that leaves the with-block of _atomic_write, "none" if none does
WriteException(raises, env) ==
    CASE env.fault = "create" -> "OSError"
      [] env.fault = "interrupt" -> "KeyboardInterrupt"
      [] env.fault = "write" -> "OSError"
      [] raises -> "TypeError"
      [] OTHER -> "none"

\* "except Exception": what the handler of _atomic_write catches
CaughtOnWrite(exc) == exc \notin {"none", "KeyboardInterrupt"}

\* a write that opens the destination itself and truncates it
InPlaceWrite(dir, tmp, target, prefix, raises, lines, env) ==
    LET exc == IF WriteException(raises, env) # "none" THEN WriteException(raises, env)
               ELSE IF env.fault = "rename" THEN "OSError" ELSE "none"
    IN  [dir |-> IF env.fault = "create" THEN dir
                 ELSE [dir EXCEPT ![target] = Text(IF exc = "none" THEN lines ELSE <<>>)],
         tmp |-> tmp,
         exc |-> IF CaughtOnWrite(exc) THEN "OSError" ELSE exc]

\* a write whose temp file starts as a copy of the destination
AppendWrite(dir, tmp, target, prefix, raises, lines, env) ==
    LET exc == IF WriteException(raises, env) # "none" THEN WriteException(raises, env)
               ELSE IF env.fault = "rename" THEN "OSError" ELSE "none"
        unlinked == CaughtOnWrite(exc) /\ env.fault # "create" /\ ~env.unlinkFails
    IN  [dir |-> IF exc = "none"
                 THEN [dir EXCEPT ![target] = Text(dir[target].lines \o lines)]
                 ELSE dir,
         tmp |-> IF env.fault # "create" /\ exc # "none" /\ ~unlinked
                 THEN tmp \cup {prefix} ELSE tmp,
         exc |-> IF CaughtOnWrite(exc) THEN "OSError" ELSE exc]

\* _atomic_write(target_file, write_func, prefix): [dir, tmp, exc] after the call,
\* tmp the prefixes of the temp files in the directory
AtomicWrite(dir, tmp, target, prefix, raises, lines, env) ==
    LET inWith == WriteException(raises, env)
        created == env.fault # "create"
        exc == IF inWith # "none" THEN inWith
               ELSE IF env.fault = "rename" THEN "OSError" ELSE "none"
        unlinked == CaughtOnWrite(exc) /\ created /\ ~env.unlinkFails
    IN  [dir |-> IF exc = "none" THEN [dir EXCEPT ![target] = Text(lines)] ELSE dir,
         tmp |-> IF created /\ exc # "none" /\ ~unlinked THEN tmp \cup {prefix} ELSE tmp,
         exc |-> IF CaughtOnWrite(exc) THEN "OSError" ELSE exc]

\* _save_transcript(session_dir, transcript)
SaveTranscriptFile(dir, tmp, transcript, env) ==
    AtomicWrite(BackupCopy(dir, TranscriptFile, TranscriptBackup, env), tmp,
                TranscriptFile, "transcript_",
                WriteTranscriptRaises(transcript), WriteTranscript(transcript), env)

\* _save_metadata(session_dir, metadata)
SaveMetadataFile(dir, tmp, metadata, env) ==
    AtomicWrite(BackupCopy(dir, MetadataFile, MetadataBackup, env), tmp,
                MetadataFile, "metadata_",
                WriteMetadataRaises(metadata), WriteMetadata(metadata), env)

\* load(session_id) on a base directory: [res, val]
LoadFrom(session_id, existing, contents) ==
    IF InvalidId(session_id) THEN [res |-> "ValueError", val |-> NoVal]
    ELSE IF session_id \notin existing THEN [res |-> "FileNotFoundError", val |-> NoVal]
    ELSE LET transcript == LoadTranscript(contents[session_id])
             metadata == LoadMetadata(session_id, contents[session_id])
         IN  IF transcript.exc # "none" THEN [res |-> transcript.exc, val |-> NoVal]
             ELSE IF metadata.exc # "none" THEN [res |-> metadata.exc, val |-> NoVal]
             ELSE [res |-> "ok",
                   val |-> [transcript |-> transcript.val, metadata |-> metadata.val]]

\* exists(session_id)
ExistsIn(session_id, existing) == ~InvalidId(session_id) /\ session_id \in existing

NoInput(session_id) ==
    [session_id |-> session_id, transcript |-> <<>>, metadata |-> PyNone]

\* SessionStore.__init__ on a new base directory
StoreInit ==
    /\ dirs = {}
    /\ files = [id \in SessionIds |-> EmptyDir]
    /\ temps = [id \in SessionIds |-> {}]
    /\ pc = "idle"
    /\ call = NoCall
    /\ ret = Ret("none", "ok", NoVal)

\* save(session_id, transcript, metadata) up to "_save_transcript(...)"
Save(session_id, transcript, metadata) ==
    /\ pc = "idle"
    /\ IF InvalidId(session_id)
       THEN /\ ret' = Ret("save", "ValueError", NoVal)
            /\ UNCHANGED <<dirs, pc, call>>
       ELSE /\ dirs' = dirs \cup {session_id}
            /\ pc' = "save_transcript"
            /\ call' = [session_id |-> session_id, transcript |-> transcript,
                        metadata |-> metadata]
            /\ ret' = Ret("save", "running", NoVal)
    /\ UNCHANGED <<input, files, temps>>
    /\ UNCHANGED conc

\* an exception leaves save
SaveRaises(exc) ==
    /\ pc' = "idle"
    /\ call' = NoCall
    /\ ret' = Ret("save", exc, NoVal)

\* "self._save_transcript(session_dir, transcript)"
SaveTranscript(env) ==
    /\ pc = "save_transcript"
    /\ LET id == call.session_id
           w == SaveTranscriptFile(files[id], temps[id], call.transcript, env)
       IN  /\ files' = [files EXCEPT ![id] = w.dir]
           /\ temps' = [temps EXCEPT ![id] = w.tmp]
           /\ IF w.exc = "none"
              THEN /\ pc' = "save_metadata"
                   /\ UNCHANGED <<call, ret>>
              ELSE SaveRaises(w.exc)
    /\ UNCHANGED <<input, dirs>>
    /\ UNCHANGED conc

\* "self._save_metadata(session_dir, metadata)" and the return of save
SaveMetadata(env) ==
    /\ pc = "save_metadata"
    /\ LET id == call.session_id
           w == SaveMetadataFile(files[id], temps[id], call.metadata, env)
       IN  /\ files' = [files EXCEPT ![id] = w.dir]
           /\ temps' = [temps EXCEPT ![id] = w.tmp]
           /\ IF w.exc = "none"
              THEN /\ pc' = "idle"
                   /\ call' = NoCall
                   /\ ret' = Ret("save", "ok", NoVal)
              ELSE SaveRaises(w.exc)
    /\ UNCHANGED <<input, dirs>>
    /\ UNCHANGED conc

\* load(session_id)
Load(session_id) ==
    /\ pc = "idle"
    /\ LET r == LoadFrom(session_id, dirs, files)
       IN  ret' = Ret("load", r.res, r.val)
    /\ UNCHANGED <<input, dirs, files, temps, pc, call>>
    /\ UNCHANGED conc

\* an exists that makes the directory it asks about
ExistsCreates(session_id) ==
    /\ pc = "idle"
    /\ dirs' = dirs \cup {session_id}
    /\ ret' = Ret("exists", "True", NoVal)
    /\ UNCHANGED <<input, files, temps, pc, call>>
    /\ UNCHANGED conc

\* exists(session_id)
Exists(session_id) ==
    /\ pc = "idle"
    /\ ret' = Ret("exists", IF ExistsIn(session_id, dirs) THEN "True" ELSE "False", NoVal)
    /\ UNCHANGED <<input, dirs, files, temps, pc, call>>
    /\ UNCHANGED conc

vars == <<input, dirs, files, temps, pc, call, ret, names, inode, wpc, rpc, rfd, seen>>

(***************************************************************************)
(* Concurrent saves and a load of one session directory, a file-system     *)
(* call per step.  A writer is a process inside save(Sid, T, M); the       *)
(* reader is a process inside load(Sid).                                   *)
(***************************************************************************)
Writers == {"w1", "w2"}

\* what each writer saves; "w0" is the save that ran before them, if one did
SavedBy(w) ==
    CASE w = "w0" -> [transcript |-> <<SystemMsg, ToolCallMsg>>, metadata |-> PlainMeta]
      [] w = "w1" -> [transcript |-> <<SystemMsg, DeveloperMsg, UserMsg, AssistantMsg>>,
                      metadata |-> NestedMeta]
      [] w = "w2" -> [transcript |-> <<SystemMsg, AssistantMsg, UserMsg>>,
                      metadata |-> PyDict([session_id |-> PyStr("s"), profile |-> PyStr("full")])]

\* the lines the write callback of the call with this prefix writes
Content(w, prefix) ==
    IF prefix = "transcript_"
    THEN WriteTranscript(SavedBy(w).transcript)
    ELSE WriteMetadata(SavedBy(w).metadata)

\* target_file of the _atomic_write call with this prefix
TargetOf(prefix) == IF prefix = "transcript_" THEN TranscriptFile ELSE MetadataFile

\* backup_file of the save step with this prefix
BackupOf(prefix) == IF prefix = "transcript_" THEN TranscriptBackup ELSE MetadataBackup

\* the write goes to the destination itself
DestName(w, prefix) == TargetOf(prefix)

\* NamedTemporaryFile(dir=session_dir, prefix=prefix, suffix=".tmp"): a name no
\* other call uses
TempName(w, prefix) == prefix \o w \o ".tmp"

\* the inode NamedTemporaryFile creates
TempInode(w, prefix) == prefix \o w

TempNames == {TempName(w, prefix) : w \in Writers, prefix \in TempPrefixes}

InodeIds ==
    {TempInode(w, prefix) : w \in Writers \cup {"w0"}, prefix \in TempPrefixes}
       \cup {TranscriptBackup, MetadataBackup}

\* the rename may come at any time
Whenever(w, prefix) == TRUE

\* write_func(tmp_file), tmp_file.flush() and the end of the with-block have
\* run: the temp file holds all the callback writes
Flushed(w, prefix) == inode[TempInode(w, prefix)] = Content(w, prefix)

At(prefix, at) == [prefix |-> prefix, at |-> at]

Unread == [st |-> "unread", lines |-> <<>>]

NoFile == [st |-> "nofile", lines |-> <<>>]

Observed(lines) == [st |-> "read", lines |-> lines]

\* no concurrent process runs
ConcOff ==
    /\ names = [name \in FileNames \cup TempNames |-> ""]
    /\ inode = [id \in InodeIds |-> <<>>]
    /\ wpc = [w \in Writers |-> At("transcript_", "done")]
    /\ rpc = At("transcript_", "done")
    /\ rfd = ""
    /\ seen = [name \in {TranscriptFile, MetadataFile} |-> Unread]

store == <<input, files, temps, pc, call>>

\* save: the id is valid; "session_dir.mkdir(parents=True, exist_ok=True)"
Mkdir(w) ==
    /\ wpc[w] = At("transcript_", "mkdir")
    /\ dirs' = dirs \cup {Sid}
    /\ wpc' = [wpc EXCEPT ![w] = At("transcript_", "backup")]
    /\ UNCHANGED <<names, inode, rpc, rfd, seen, ret>>
    /\ UNCHANGED store

\* "if file.exists(): shutil.copy2(file, backup_file)"
CopyBackup(w) ==
    /\ wpc[w].at = "backup"
    /\ LET prefix == wpc[w].prefix
           target == TargetOf(prefix)
           backup == BackupOf(prefix)
       IN  /\ IF names[target] # ""
              THEN /\ names' = [names EXCEPT ![backup] = backup]
                   /\ inode' = [inode EXCEPT ![backup] = inode[names[target]]]
              ELSE UNCHANGED <<names, inode>>
           /\ wpc' = [wpc EXCEPT ![w] = At(prefix, "create")]
    /\ UNCHANGED <<dirs, rpc, rfd, seen, ret>>
    /\ UNCHANGED store

\* _atomic_write: "with tempfile.NamedTemporaryFile(...) as tmp_file"
CreateTemp(w) ==
    /\ wpc[w].at = "create"
    /\ LET prefix == wpc[w].prefix
       IN  /\ names' = [names EXCEPT ![TempName(w, prefix)] = TempInode(w, prefix)]
           /\ inode' = [inode EXCEPT ![TempInode(w, prefix)] = <<>>]
           /\ wpc' = [wpc EXCEPT ![w] = At(prefix, "write")]
    /\ UNCHANGED <<dirs, rpc, rfd, seen, ret>>
    /\ UNCHANGED store

\* _atomic_write: "write_func(tmp_file)", one line reaching the file
WriteLine(w) ==
    /\ wpc[w].at = "write"
    /\ LET prefix == wpc[w].prefix
           written == inode[TempInode(w, prefix)]
       IN  /\ Len(written) < Len(Content(w, prefix))
           /\ inode' = [inode EXCEPT ![TempInode(w, prefix)] =
                           Append(written, Content(w, prefix)[Len(written) + 1])]
    /\ UNCHANGED <<dirs, names, wpc, rpc, rfd, seen, ret>>
    /\ UNCHANGED store

\* _atomic_write: "temp_path.replace(target_file)" and the return; save goes
\* on to _save_metadata or returns
Replace(w) ==
    /\ wpc[w].at = "write"
    /\ LET prefix == wpc[w].prefix
       IN  /\ Flushed(w, prefix)
           /\ names' = [names EXCEPT ![TempName(w, prefix)] = "",
                                     ![TargetOf(prefix)] = TempInode(w, prefix)]
           /\ wpc' = [wpc EXCEPT ![w] = IF prefix = "transcript_"
                                        THEN At("metadata_", "backup")
                                        ELSE At("metadata_", "done")]
    /\ UNCHANGED <<dirs, inode, rpc, rfd, seen, ret>>
    /\ UNCHANGED store

\* _atomic_write: the write raises (disk full); "except Exception:
\* temp_path.unlink(); raise OSError"
WriteRaises(w) ==
    /\ wpc[w].at = "write"
    /\ LET prefix == wpc[w].prefix
       IN  /\ names' = [names EXCEPT ![TempName(w, prefix)] = ""]
           /\ wpc' = [wpc EXCEPT ![w] = At(prefix, "failed")]
    /\ UNCHANGED <<dirs, inode, rpc, rfd, seen, ret>>
    /\ UNCHANGED store

\* the process is interrupted or killed inside save: nothing more of it runs
Kill(w) ==
    /\ wpc[w].at \in {"backup", "create", "write"}
    /\ wpc' = [wpc EXCEPT ![w] = At(wpc[w].prefix, "dead")]
    /\ UNCHANGED <<dirs, names, inode, rpc, rfd, seen, ret>>
    /\ UNCHANGED store

\* the reader of _load_transcript or _load_metadata
ReadFile(prefix, file) ==
    IF prefix = "transcript_" THEN ReadTranscript(file) ELSE ReadMetadata(file)

\* what load returns when primary and backup fail
Default(prefix) == IF prefix = "transcript_" THEN <<>> ELSE MinimalMetadata(Sid)

\* _load_transcript or _load_metadata returns value; load goes on or returns
Deliver(prefix, value) ==
    IF prefix = "transcript_"
    THEN /\ ret' = Ret("load", "running", [transcript |-> value, metadata |-> PyNone])
         /\ rpc' = At("metadata_", "exists")
    ELSE /\ ret' = Ret("load", "ok", [transcript |-> ret.val.transcript, metadata |-> value])
         /\ rpc' = At("metadata_", "done")

\* load: "if not session_dir.exists(): raise FileNotFoundError"
LoadStart ==
    /\ rpc.at = "start"
    /\ IF Sid \in dirs
       THEN /\ rpc' = At("transcript_", "exists")
            /\ ret' = Ret("load", "running", NoVal)
       ELSE /\ rpc' = At("metadata_", "done")
            /\ ret' = Ret("load", "FileNotFoundError", NoVal)
    /\ UNCHANGED <<dirs, names, inode, wpc, rfd, seen>>
    /\ UNCHANGED store

\* "if file.exists(): ... with open(file, encoding="utf-8") as f"
OpenFile ==
    /\ rpc.at = "exists"
    /\ LET target == TargetOf(rpc.prefix)
       IN  IF names[target] = ""
           THEN /\ seen' = [seen EXCEPT ![target] = NoFile]
                /\ rpc' = At(rpc.prefix, "backup")
                /\ UNCHANGED rfd
           ELSE /\ rfd' = names[target]
                /\ rpc' = At(rpc.prefix, "read")
                /\ UNCHANGED seen
    /\ UNCHANGED <<dirs, names, inode, wpc, ret>>
    /\ UNCHANGED store

\* "for line in f: ... json.loads(line)" or "json.load(f)" on the open file
ReadOpen ==
    /\ rpc.at = "read"
    /\ LET lines == inode[rfd]
           read == ReadFile(rpc.prefix, Text(lines))
       IN  /\ seen' = [seen EXCEPT ![TargetOf(rpc.prefix)] = Observed(lines)]
           /\ IF read.exc = "none"
              THEN Deliver(rpc.prefix, read.val)
              ELSE /\ rpc' = At(rpc.prefix, "backup")
                   /\ UNCHANGED ret
    /\ rfd' = ""
    /\ UNCHANGED <<dirs, names, inode, wpc>>
    /\ UNCHANGED store

\* "if backup_file.exists(): try: ... except: ..." and the default after it
ReadBackup ==
    /\ rpc.at = "backup"
    /\ LET backup == BackupOf(rpc.prefix)
           file == IF names[backup] = "" THEN Absent ELSE Text(inode[names[backup]])
           read == ReadFile(rpc.prefix, file)
       IN  Deliver(rpc.prefix,
                   IF FileExists(file) /\ read.exc = "none" THEN read.val
                   ELSE Default(rpc.prefix))
    /\ UNCHANGED <<dirs, names, inode, wpc, rfd, seen>>
    /\ UNCHANGED store

(***************************************************************************)
(* Spec: one process working on one session, saving snapshots of its       *)
(* conversation; it also calls the store with malformed ids and asks for   *)
(* sessions that do not exist.                                             *)
(***************************************************************************)
Init ==
    /\ input = NoInput(<<"p", "-", "c">>)
    /\ StoreInit
    /\ ConcOff

Next ==
    \/ \E transcript \in Snapshots, metadata \in Metadatas :
          Save(input.session_id, transcript, metadata)
    \/ \E session_id \in BadIds : Save(session_id, <<>>, EmptyDict)
    \/ \E env \in Environments : SaveTranscript(env)
    \/ \E env \in Environments : SaveMetadata(env)
    \/ \E session_id \in SessionIds : Load(session_id)
    \/ \E session_id \in SessionIds : Exists(session_id)

Spec == Init /\ [][Next]_vars

(***************************************************************************)
(* SpecRound: one save on a new store, of any transcript of at most MaxLen *)
(* messages, then loads and exists.                                        *)
(***************************************************************************)
InitRound ==
    /\ input \in [session_id : GoodIds, transcript : Transcripts, metadata : Metadatas]
    /\ StoreInit
    /\ ConcOff

NextRound ==
    \/ /\ ret.op = "none"
       /\ Save(input.session_id, input.transcript, input.metadata)
    \/ \E env \in Environments : SaveTranscript(env)
    \/ \E env \in Environments : SaveMetadata(env)
    \/ \E session_id \in GoodIds : Load(session_id)
    \/ \E session_id \in GoodIds : Exists(session_id)

SpecRound == InitRound /\ [][NextRound]_vars

(***************************************************************************)
(* SpecRec: the process of Spec, and a user who edits transcript.jsonl and  *)
(* metadata.json by hand between calls (the backups are the store's own).  *)
(***************************************************************************)
EditKinds == {"garbage", "badutf8", "unreadable", "delete"}

\* the file after the edit: a line that is not JSON is appended to a transcript
\* (a write cut short) and replaces a metadata file ("{ corrupt json")
Edited(file, name, kind) ==
    CASE kind = "garbage" ->
            IF name = TranscriptFile /\ file.kind = "text"
            THEN Text(Append(file.lines, Garbage))
            ELSE Text(<<Garbage>>)
      [] kind = "badutf8" -> BadUtf8
      [] kind = "unreadable" -> Unreadable
      [] kind = "delete" -> Absent

HandEdit(session_id, name, kind) ==
    /\ pc = "idle"
    /\ session_id \in dirs
    /\ LET file == files[session_id][name]
       IN  /\ FileExists(file)
           /\ ~(kind = "garbage" /\ file.kind = "text" /\ file.lines # <<>>
                  /\ file.lines[Len(file.lines)].jt = "garbage")
           /\ files' = [files EXCEPT ![session_id][name] = Edited(file, name, kind)]
    /\ ret' = Ret("edit", "ok", NoVal)
    /\ UNCHANGED <<input, dirs, temps, pc, call>>
    /\ UNCHANGED conc

NextRec ==
    \/ \E transcript \in Snapshots, metadata \in Metadatas :
          Save(input.session_id, transcript, metadata)
    \/ SaveTranscript(NoFault)
    \/ SaveMetadata(NoFault)
    \/ \E session_id \in SessionIds : Load(session_id)
    \/ \E name \in {TranscriptFile, MetadataFile}, kind \in EditKinds :
          HandEdit(input.session_id, name, kind)

SpecRec == Init /\ [][NextRec]_vars

(***************************************************************************)
(* SpecConc: the writers save the session and the reader loads it, in any  *)
(* interleaving of their steps, on a directory that is new or holds an     *)
(* earlier save; a writer may fail or be killed at any step.               *)
(***************************************************************************)
\* the directory after the save of "w0" on a new store
SavedBefore ==
    /\ dirs = {Sid}
    /\ names = [name \in FileNames \cup TempNames |->
                  CASE name = TranscriptFile -> TempInode("w0", "transcript_")
                    [] name = MetadataFile -> TempInode("w0", "metadata_")
                    [] OTHER -> ""]
    /\ inode = [id \in InodeIds |->
                  CASE id = TempInode("w0", "transcript_") -> Content("w0", "transcript_")
                    [] id = TempInode("w0", "metadata_") -> Content("w0", "metadata_")
                    [] OTHER -> <<>>]

InitConc ==
    /\ input = NoInput(<<"p", "-", "c">>)
    /\ files = [id \in SessionIds |-> EmptyDir]
    /\ temps = [id \in SessionIds |-> {}]
    /\ pc = "idle"
    /\ call = NoCall
    /\ ret = Ret("none", "ok", NoVal)
    /\ \/ /\ dirs = {}
          /\ names = [name \in FileNames \cup TempNames |-> ""]
          /\ inode = [id \in InodeIds |-> <<>>]
       \/ SavedBefore
    /\ wpc = [w \in Writers |-> At("transcript_", "mkdir")]
    /\ rpc = At("transcript_", "start")
    /\ rfd = ""
    /\ seen = [name \in {TranscriptFile, MetadataFile} |-> Unread]

NextConc ==
    \/ \E w \in Writers : Mkdir(w)
    \/ \E w \in Writers : CopyBackup(w)
    \/ \E w \in Writers : CreateTemp(w)
    \/ \E w \in Writers : WriteLine(w)
    \/ \E w \in Writers : Replace(w)
    \/ \E w \in Writers : WriteRaises(w)
    \/ \E w \in Writers : Kill(w)
    \/ LoadStart
    \/ OpenFile
    \/ ReadOpen
    \/ ReadBackup

SpecConc == InitConc /\ [][NextConc]_vars

(***************************************************************************)
(* Properties of the session store.                                        *)
(***************************************************************************)
\* the roles the transcript must not persist, as the specification names them
IsInternal(message) ==
    /\ message.k \in {"dict", "model"}
    /\ "role" \in DOMAIN message.v
    /\ message.v["role"].k = "str"
    /\ message.v["role"].v \in {"system", "developer"}

\* a persisted line that is a message with an internal role
InternalLine(line) ==
    /\ line.jt = "object"
    /\ "role" \in DOMAIN line.jv
    /\ line.jv["role"].jt = "string"
    /\ line.jv["role"].jv \in {"system", "developer"}

\* this step is save returning normally
SaveReturns == pc = "save_metadata" /\ pc' = "idle" /\ ret'.res = "ok"

\* this step is an _atomic_write call of save ending in an exception
WriteFails == pc \in {"save_transcript", "save_metadata"} /\ pc' = "idle" /\ ret'.res # "ok"

\* the file the _atomic_write call of this step writes to
Target == IF pc = "save_transcript" THEN TranscriptFile ELSE MetadataFile

\* what load(session_id) returns in the state this step leads to
LoadedNext(session_id) == LoadFrom(session_id, dirs', files')

\* the id rule as the specification states it: empty, or holding "/" or "\",
\* or exactly "." or ".."
Malformed(session_id) ==
    \/ session_id = <<>>
    \/ \E i \in 1..Len(session_id) : session_id[i] = "/" \/ session_id[i] = "\\"
    \/ session_id = <<".">>
    \/ session_id = <<".", ".">>

\* the sanitizer's output for each message of a sequence
Sanitized(messages) == [i \in 1..Len(messages) |-> SanitizeMessage(messages[i])]

\* the lines of a file as json.loads gives them
Parsed(lines) == [i \in 1..Len(lines) |-> JsonLoads(lines[i])]

\* C1 (as amended): no line of a persisted transcript is a message whose role is
\* system or developer, and when save returns, load yields the sanitizer's
\* output for each message of T whose role is neither, in T's order.
C1_FilteredRoundTrip ==
    [][/\ \A id \in SessionIds : \A name \in {TranscriptFile, TranscriptBackup} :
             \A i \in 1..Len(files'[id][name].lines) : ~InternalLine(files'[id][name].lines[i])
       /\ SaveReturns =>
             /\ LoadedNext(call.session_id).res = "ok"
             /\ LoadedNext(call.session_id).val.transcript =
                   Sanitized(SelectSeq(call.transcript,
                                       LAMBDA message : ~IsInternal(message)))]_vars

\* C1 witness: load has returned the two turns of a conversation that was saved
\* with its system and developer messages.
C1_Witness ==
    /\ ret.op = "load"
    /\ ret.res = "ok"
    /\ ret.val.transcript = <<SanitizeMessage(UserMsg), SanitizeMessage(AssistantMsg)>>

\* C1 as stated: when save returns, load yields exactly the messages of T whose
\* role is neither system nor developer.
C1_ExactRoundTrip ==
    [][SaveReturns =>
          LoadedNext(call.session_id).val.transcript =
             SelectSeq(call.transcript, LAMBDA message : ~IsInternal(message))]_vars

\* C2 (as amended): when an _atomic_write call fails, the destination file is as
\* it was before the call; unless the failure is an interrupt, the caller gets
\* an OSError, and unless the unlink fails too, no temp file of the call remains.
C2_AtomicWriteFailure ==
    [][\A env \in Environments :
          (SaveTranscript(env) \/ SaveMetadata(env)) /\ WriteFails =>
             /\ files'[call.session_id][Target] = files[call.session_id][Target]
             /\ env.fault # "interrupt" =>
                   /\ ret'.res = "OSError"
                   /\ ~env.unlinkFails => temps' = temps]_vars

\* C2 witness: a save has failed with OSError over an existing transcript and
\* left no temp file.
C2_Witness ==
    /\ ret.op = "save"
    /\ ret.res = "OSError"
    /\ FileExists(files[Sid][TranscriptFile])
    /\ temps[Sid] = {}

\* C2 as stated: when an _atomic_write call fails, the destination is unchanged,
\* no temp file of the call remains and the caller gets an OSError.
C2_NoTempRemains ==
    [][WriteFails =>
          /\ files'[call.session_id][Target] = files[call.session_id][Target]
          /\ temps' = temps
          /\ ret'.res = "OSError"]_vars

\* C6: save with a malformed id raises a validation error and leaves every
\* directory, file and temp file as it was.
C6_InvalidIdTouchesNothing ==
    [][\A session_id \in SessionIds :
          Malformed(session_id) /\ Save(session_id, <<>>, EmptyDict) =>
             /\ ret'.res = "ValueError"
             /\ UNCHANGED <<dirs, files, temps>>]_vars

\* C6 witness: save has raised a validation error on a store that holds a session.
C6_Witness ==
    /\ ret.op = "save"
    /\ ret.res = "ValueError"
    /\ FileExists(files[Sid][MetadataFile])

\* C9: whenever save returns, load returns what that save persisted and nothing
\* else: its metadata and the persisted form of its transcript, whatever earlier
\* saves wrote.
C9_LastSaveOnly ==
    [][SaveReturns =>
          LoadedNext(call.session_id) =
             [res |-> "ok",
              val |-> [transcript |-> Parsed(WriteTranscript(call.transcript)),
                       metadata |-> call.metadata]]]_vars

\* C9 witness: load has returned the session after a save replaced an earlier,
\* different save of it.
C9_Witness ==
    /\ ret.op = "load"
    /\ ret.res = "ok"
    /\ FileExists(files[Sid][TranscriptBackup])
    /\ FileExists(files[Sid][MetadataBackup])
    /\ files[Sid][TranscriptBackup] # files[Sid][TranscriptFile]
    /\ files[Sid][MetadataBackup] # files[Sid][MetadataFile]
    /\ ret.val.transcript = ReadTranscript(files[Sid][TranscriptFile]).val
    /\ ret.val.metadata = ReadMetadata(files[Sid][MetadataFile]).val

\* a file that is there and was read and parsed without an exception
Valid(file, read) == FileExists(file) /\ read.exc = "none"

\* the tiers as the specification states them: the parsed primary when valid,
\* else the parsed backup when present and valid, else the default
Tiered(primary, backup, fromPrimary, fromBackup, default) ==
    IF Valid(primary, fromPrimary) THEN fromPrimary.val
    ELSE IF Valid(backup, fromBackup) THEN fromBackup.val
    ELSE default

\* C4 as stated: load on an existing session directory does not raise because
\* of metadata.json and returns the parsed primary when valid, else the parsed
\* backup when present and valid, else the minimal recovered object.
C4_MetadataRecovery ==
    [][/\ Sid \in dirs
       /\ LoadTranscript(files[Sid]).exc = "none"
       /\ Load(Sid)
       => /\ ret'.res = "ok"
          /\ ret'.val.metadata =
                Tiered(files[Sid][MetadataFile], files[Sid][MetadataBackup],
                       ReadMetadata(files[Sid][MetadataFile]),
                       ReadMetadata(files[Sid][MetadataBackup]),
                       MinimalMetadata(Sid))]_vars

\* C5 as stated: load returns the parsed transcript.jsonl when every line
\* parses, else the parsed backup when present and valid, else the empty list,
\* and does not raise for a corrupted transcript.
C5_TranscriptRecovery ==
    [][/\ Sid \in dirs
       /\ LoadMetadata(Sid, files[Sid]).exc = "none"
       /\ Load(Sid)
       => /\ ret'.res = "ok"
          /\ ret'.val.transcript =
                Tiered(files[Sid][TranscriptFile], files[Sid][TranscriptBackup],
                       ReadTranscript(files[Sid][TranscriptFile]),
                       ReadTranscript(files[Sid][TranscriptBackup]), <<>>)]_vars

\* C7 as stated: load raises a validation error for a malformed id, a not-found
\* error for a well-formed id without a session directory, and returns a pair
\* in every other case.
C7_LoadOutcomes ==
    [][\A session_id \in {id \in SessionIds : Malformed(id)} \cup GoodIds :
          Load(session_id) =>
             ret'.res = IF Malformed(session_id) THEN "ValueError"
                        ELSE IF session_id \notin dirs THEN "FileNotFoundError"
                        ELSE "ok"]_vars

\* a user or assistant message that json.dumps takes as it is
PlainMessage(message) ==
    /\ message.k = "dict"
    /\ JsonDumpable(message)
    /\ "role" \in DOMAIN message.v
    /\ message.v["role"] \in {PyStr("user"), PyStr("assistant")}

\* C8 as stated: for a transcript of user/assistant messages with
\* JSON-serializable content and a JSON-serializable metadata mapping, save
\* followed by load returns exactly (T, M), and exists is true.
C8_RoundTrip ==
    [][/\ SaveReturns
       /\ \A i \in 1..Len(call.transcript) : PlainMessage(call.transcript[i])
       /\ JsonDumpable(call.metadata)
       => /\ LoadedNext(call.session_id) =
                [res |-> "ok",
                 val |-> [transcript |-> call.transcript, metadata |-> call.metadata]]
          /\ ExistsIn(call.session_id, dirs')]_vars

\* the file a name of the session directory refers to
Current(name) == IF names[name] = "" THEN Absent ELSE Text(inode[names[name]])

\* this step is a step of writer w
WriterStep(w) ==
    \/ wpc'[w] # wpc[w]
    \/ inode'[TempInode(w, wpc[w].prefix)] # inode[TempInode(w, wpc[w].prefix)]

\* C3: whatever step a save takes, and wherever it fails or is killed, the file
\* at transcript.jsonl after the step is the file before it (absent if there was
\* none) or the complete transcript of that save; it is never a part of one.
C3_OldOrNew ==
    [][\A w \in Writers :
          WriterStep(w) =>
             \/ Current(TranscriptFile)' = Current(TranscriptFile)
             \/ Current(TranscriptFile)' = Text(Content(w, "transcript_"))]_vars

\* C3 witness: a save was killed with half of its transcript in the temp file,
\* and transcript.jsonl is the complete earlier version.
C3_Witness ==
    \E w \in Writers :
       /\ wpc[w] = At("transcript_", "dead")
       /\ names[TempName(w, "transcript_")] # ""
       /\ Len(inode[TempInode(w, "transcript_")]) = 1
       /\ Len(Content(w, "transcript_")) = 2
       /\ Current(TranscriptFile) = Text(Content("w0", "transcript_"))

\* C10: whatever the loading process read at transcript.jsonl or metadata.json
\* while the others save is the complete content one save wrote.
C10_ReadsAreWhole ==
    \A prefix \in TempPrefixes :
       seen[TargetOf(prefix)].st = "read" =>
          \E w \in Writers \cup {"w0"} : seen[TargetOf(prefix)].lines = Content(w, prefix)

\* C10 witness: the load has returned the transcript of one save and the
\* metadata of the other while a save was still writing.
C10_Witness ==
    /\ rpc.at = "done"
    /\ ret.res = "ok"
    /\ seen[TranscriptFile] = Observed(Content("w1", "transcript_"))
    /\ seen[MetadataFile] = Observed(Content("w2", "metadata_"))
    /\ wpc["w1"] = At("metadata_", "write")

\* C11 as stated: when both concurrent saves have completed, transcript.jsonl
\* and metadata.json together are the full content of one writer.
C11_OneWriterWins ==
    (\A w \in Writers : wpc[w] = At("metadata_", "done")) =>
       \E w \in Writers :
          /\ Current(TranscriptFile) = Text(Content(w, "transcript_"))
          /\ Current(MetadataFile) = Text(Content(w, "metadata_"))

(***************************************************************************)
(* The config merger (src/amplifier_app_cli/agent_config.py).  A config is *)
(* a Python dict of sections.  merge_profile_dicts comes from the          *)
(* amplifier_profiles package, whose source is not in the repository       *)
(* tree: it is written here from section 4.1 of the specification.         *)
(***************************************************************************)
ModuleSections == {"providers", "tools", "hooks"}

RECURSIVE DeepMerge(_, _)
\* nested objects merge recursively: the overlay's keys override, the parent's
\* other keys stay; across representations the overlay's value wins whole
DeepMerge(parent, overlay) ==
    IF parent.k = "dict" /\ overlay.k = "dict"
    THEN PyDict([key \in DOMAIN parent.v \cup DOMAIN overlay.v |->
                    IF key \notin DOMAIN overlay.v THEN parent.v[key]
                    ELSE IF key \notin DOMAIN parent.v THEN overlay.v[key]
                    ELSE DeepMerge(parent.v[key], overlay.v[key])])
    ELSE overlay

\* the module id of an entry of a module list
ModuleId(item) == item.v["module"].v

\* the entry of a module list with this module id
EntryOf(items, id) == items[CHOOSE i \in 1..Len(items) : ModuleId(items[i]) = id]

HasModule(items, id) == \E i \in 1..Len(items) : ModuleId(items[i]) = id

\* module lists merge by the module key: the parent's entries in the parent's
\* order, each merged with the overlay's entry of the same module, then the
\* overlay's new entries in the overlay's order
MergeModuleLists(parent, overlay) ==
    PyList([i \in 1..Len(parent.v) |->
               IF HasModule(overlay.v, ModuleId(parent.v[i]))
               THEN DeepMerge(parent.v[i], EntryOf(overlay.v, ModuleId(parent.v[i])))
               ELSE parent.v[i]]
           \o SelectSeq(overlay.v, LAMBDA item : ~HasModule(parent.v, ModuleId(item))))

\* merge_profile_dicts(parent, overlay)
MergeProfileDicts(parent, overlay) ==
    PyDict([key \in DOMAIN parent.v \cup DOMAIN overlay.v |->
               IF key \notin DOMAIN overlay.v THEN parent.v[key]
               ELSE IF key \notin DOMAIN parent.v THEN overlay.v[key]
               ELSE IF /\ key \in ModuleSections
                       /\ parent.v[key].k = "list"
                       /\ overlay.v[key].k = "list"
               THEN MergeModuleLists(parent.v[key], overlay.v[key])
               ELSE DeepMerge(parent.v[key], overlay.v[key])])

\* 'agent_filter = overlay_copy.pop("agents", None)': the value popped
AgentFilter(overlay) ==
    IF "agents" \in DOMAIN overlay.v THEN overlay.v["agents"] ELSE PyNone

\* 'overlay_copy = overlay.copy(); overlay_copy.pop("agents", None)': what is left
OverlayCopy(overlay) ==
    PyDict([key \in DOMAIN overlay.v \ {"agents"} |-> overlay.v[key]])

\* 'parent.get("agents", {})'
ParentAgents(parent) ==
    IF "agents" \in DOMAIN parent.v THEN parent.v["agents"] ELSE EmptyDict

\* 'k in agent_filter' for a list
InFilter(name, agent_filter) ==
    \E i \in 1..Len(agent_filter.v) :
       agent_filter.v[i].k = "str" /\ agent_filter.v[i].v = name

\* a filter that lets every agent of the parent through
AllAgents(parent_agents, agent_filter) == parent_agents

\* '{k: v for k, v in parent_agents.items() if k in agent_filter}'
FilterAgents(parent_agents, agent_filter) ==
    PyDict([name \in {k \in DOMAIN parent_agents.v : InFilter(k, agent_filter)} |->
               parent_agents.v[name]])

\* 'result["agents"] = agents'
WithAgents(result, agents) ==
    PyDict([key \in DOMAIN result.v \cup {"agents"} |->
               IF key = "agents" THEN agents ELSE result.v[key]])

\* a merge that hands the overlay's agents value to the generic merge
MergeUnfiltered(parent, overlay) == MergeProfileDicts(parent, overlay)

\* a merge with the arguments of the generic merge exchanged
MergeSwapped(parent, overlay) ==
    LET agent_filter == AgentFilter(overlay)
        result == MergeProfileDicts(OverlayCopy(overlay), parent)
    IN  IF agent_filter.k = "str" /\ agent_filter.v = "none"
        THEN WithAgents(result, EmptyDict)
        ELSE IF agent_filter.k = "list"
        THEN WithAgents(result, FilterAgents(ParentAgents(parent), agent_filter))
        ELSE result

\* a merge that takes a missing agents value for "none"
MergeAbsentIsNone(parent, overlay) ==
    LET agent_filter == AgentFilter(overlay)
        result == MergeProfileDicts(parent, OverlayCopy(overlay))
    IN  IF agent_filter.k = "none" \/ (agent_filter.k = "str" /\ agent_filter.v = "none")
        THEN WithAgents(result, EmptyDict)
        ELSE IF agent_filter.k = "list"
        THEN WithAgents(result, FilterAgents(ParentAgents(parent), agent_filter))
        ELSE result

\* merge_configs(parent, overlay)
MergeConfigs(parent, overlay) ==
    LET agent_filter == AgentFilter(overlay)
        result == MergeProfileDicts(parent, OverlayCopy(overlay))
    IN  IF agent_filter.k = "str" /\ agent_filter.v = "none"
        THEN WithAgents(result, EmptyDict)
        ELSE IF agent_filter.k = "list"
        THEN WithAgents(result, FilterAgents(ParentAgents(parent), agent_filter))
        ELSE result

\* 'key in container' [res |-> "yes" | "no" | "TypeError"]: a dict has keys, a
\* list has items, and None, a number or a bool is not iterable
Contains(container, key) ==
    CASE container.k = "dict" -> IF key \in DOMAIN container.v THEN "yes" ELSE "no"
      [] container.k = "list" ->
            IF \E i \in 1..Len(container.v) :
                  container.v[i].k = "str" /\ container.v[i].v = key
            THEN "yes" ELSE "no"
      [] container.k = "str" -> IF container.v = key THEN "yes" ELSE "no"
      [] OTHER -> "TypeError"

\* validate_agent_config(config): [res, warned], res "True" or the exception
ValidateAgentConfig(config) ==
    LET has_top_level_name == "name" \in DOMAIN config.v
        has_meta_name == IF "meta" \in DOMAIN config.v
                         THEN Contains(config.v["meta"], "name") ELSE "no"
        has_instruction == IF "system" \in DOMAIN config.v
                           THEN Contains(config.v["system"], "instruction") ELSE "yes"
    IN  IF has_meta_name = "TypeError" THEN [res |-> "TypeError", warned |-> FALSE]
        ELSE IF ~has_top_level_name /\ has_meta_name = "no"
        THEN [res |-> "ValueError", warned |-> FALSE]
        ELSE IF has_instruction = "TypeError" THEN [res |-> "TypeError", warned |-> FALSE]
        ELSE [res |-> "True", warned |-> has_instruction = "no"]

(***************************************************************************)
(* The configs the callers merge: a parent is a session's resolved mount   *)
(* plan, an overlay an agent's partial config.                             *)
(***************************************************************************)
PyInt(n) == [k |-> "int", v |-> n]

\* a dict of the given fields without those that are None (section left out)
Sections(fields) ==
    PyDict([key \in {k \in DOMAIN fields : fields[k].k # "none"} |-> fields[key]])

ParentSessions ==
    {PyNone,
     PyDict([orchestrator |-> PyStr("loop-basic"), context |-> PyStr("context-simple")]),
     PyDict([orchestrator |-> PyDict([module |-> PyStr("loop-streaming"),
                                      config |-> PyDict([depth |-> PyInt("1"),
                                                         trace |-> PyTrue])])])}

ModuleA == PyDict([module |-> PyStr("a")])

ModuleB ==
    PyDict([module |-> PyStr("b"), source |-> PyStr("git+b"),
            config |-> PyDict([x |-> PyInt("0"), y |-> PyInt("0"),
                               nested |-> PyDict([p |-> PyInt("0"), q |-> PyInt("0")])])])

ParentProviders == {PyNone, PyList(<<>>), PyList(<<ModuleA, ModuleB>>)}

ParentTools ==
    {PyNone,
     PyList(<<PyDict([module |-> PyStr("tool-fs"),
                      config |-> PyDict([root |-> PyStr(".")])])>>)}

ParentAgentsSet ==
    {PyNone, EmptyDict,
     PyDict([foo |-> EmptyDict, bar |-> PyDict([description |-> PyStr("bar agent")])])}

Parents ==
    {Sections([session |-> s, providers |-> p, tools |-> t, agents |-> a]) :
        s \in ParentSessions, p \in ParentProviders, t \in ParentTools, a \in ParentAgentsSet}

OverlaySessions ==
    {PyNone,
     PyDict([orchestrator |-> PyStr("loop-events")]),
     PyDict([orchestrator |-> PyDict([module |-> PyStr("loop-streaming"),
                                      config |-> PyDict([depth |-> PyInt("2")])])])}

OverlayProviders ==
    {PyNone,
     PyList(<<PyDict([module |-> PyStr("b"), config |-> PyDict([x |-> PyInt("1")])]),
              PyDict([module |-> PyStr("c")])>>),
     PyList(<<PyDict([module |-> PyStr("b"), source |-> PyStr("git+b2")])>>),
     PyList(<<PyDict([module |-> PyStr("c")]),
              PyDict([module |-> PyStr("a"), config |-> PyDict([z |-> PyInt("1")])]),
              PyDict([module |-> PyStr("b"),
                      config |-> PyDict([nested |-> PyDict([p |-> PyInt("1")])])])>>)}

\* the Smart Single Value of an agent: "all", "none" or a list of names
AgentFilters ==
    {PyNone, PyStr("all"), PyStr("none"), PyList(<<>>), PyList(<<PyStr("foo")>>),
     PyList(<<PyStr("zzz"), PyStr("bar"), PyStr("foo")>>)}

\* agent configs with a name and sections to merge
SectionOverlays ==
    {Sections([name |-> PyStr("zen"), session |-> s, providers |-> p, agents |-> a]) :
        s \in OverlaySessions, p \in OverlayProviders, a \in AgentFilters}

\* agent configs as the loader hands them to validation: with and without a
\* name, a meta section and a system section (an empty YAML section is None)
NamingOverlays ==
    {Sections([name |-> n, meta |-> m]) :
        n \in {PyNone, PyStr("zen")},
        m \in {PyNone, EmptyDict, PyDict([name |-> PyStr("zen")]),
               PyDict([description |-> PyStr("an agent")])}}
       \cup {PyDict([name |-> PyStr("zen"), system |-> sys]) :
               sys \in {EmptyDict, PyDict([instruction |-> PyStr("be brief")]), PyNone}}
       \cup {PyDict([meta |-> PyNone]), PyDict([name |-> PyStr("zen"), meta |-> PyNone]),
             PyDict([meta |-> PyDict([name |-> PyStr("zen")]), system |-> EmptyDict])}

Overlays == SectionOverlays \cup NamingOverlays \cup {EmptyDict}

(***************************************************************************)
(* SpecMerge: a parent and an agent overlay are chosen; the overlay is     *)
(* validated and merged into the parent.                                   *)
(***************************************************************************)
InitMerge ==
    /\ input \in [parent : Parents, overlay : Overlays]
    /\ StoreInit
    /\ ConcOff

\* "merge_configs(parent, overlay)"
Merge ==
    /\ ret' = Ret("merge", "ok", MergeConfigs(input.parent, input.overlay))
    /\ UNCHANGED <<input, dirs, files, temps, pc, call>>
    /\ UNCHANGED conc

\* "validate_agent_config(config)"
Validate ==
    /\ LET r == ValidateAgentConfig(input.overlay)
       IN  ret' = Ret("validate", r.res, r.warned)
    /\ UNCHANGED <<input, dirs, files, temps, pc, call>>
    /\ UNCHANGED conc

NextMerge ==
    \/ Merge
    \/ Validate

SpecMerge == InitMerge /\ [][NextMerge]_vars

(***************************************************************************)
(* Properties of the config merger.                                        *)
(***************************************************************************)
\* the last call was merge_configs(input.parent, input.overlay)
Merged == ret.op = "merge"

\* the module list of a section of a config, empty when the section is not there
ListOf(config, section) ==
    IF section \in DOMAIN config.v /\ config.v[section].k = "list"
    THEN config.v[section].v ELSE <<>>

\* the module ids of a module list, in its order
Ids(items) == [i \in 1..Len(items) |-> ModuleId(items[i])]

\* the agents filter of the overlay is a list of names
ListFilter ==
    "agents" \in DOMAIN input.overlay.v /\ input.overlay.v["agents"].k = "list"

\* the names a list filter holds
FilterNames ==
    {input.overlay.v["agents"].v[i].v : i \in 1..Len(input.overlay.v["agents"].v)}

\* C12: merging the empty overlay gives the parent: every section, module entry,
\* config key and agents entry as it was.
C12_EmptyOverlay ==
    Merged /\ input.overlay = EmptyDict => ret.val = input.parent

\* C12 witness: a parent with a session, two providers, a tool and two agents
\* was merged with the empty overlay.
C12_Witness ==
    /\ Merged
    /\ input.overlay = EmptyDict
    /\ DOMAIN input.parent.v = {"session", "providers", "tools", "agents"}
    /\ Len(ListOf(input.parent, "providers")) = 2
    /\ DOMAIN input.parent.v["agents"].v = {"foo", "bar"}
    /\ ret.val.v["providers"] = input.parent.v["providers"]

\* C13: a merged module list has one entry per module id of parent and overlay:
\* the parent's ids in the parent's order, then the overlay's new ids in the
\* overlay's order.
C13_MergeByModuleKey ==
    Merged =>
       \A section \in ModuleSections :
          LET parent == ListOf(input.parent, section)
              overlay == ListOf(input.overlay, section)
          IN  Ids(ListOf(ret.val, section)) =
                 Ids(parent) \o SelectSeq(Ids(overlay),
                                          LAMBDA id : \A i \in 1..Len(parent) :
                                                         ModuleId(parent[i]) # id)

\* C13 witness: parent providers [a, b] merged with overlay providers
\* [c, a, b] gave [a, b, c].
C13_Witness ==
    /\ Merged
    /\ Ids(ListOf(input.parent, "providers")) = <<"a", "b">>
    /\ Ids(ListOf(input.overlay, "providers")) = <<"c", "a", "b">>
    /\ Ids(ListOf(ret.val, "providers")) = <<"a", "b", "c">>

RECURSIVE Overridden(_, _, _)
\* merged is parent with overlay laid over it: the overlay's keys override, at
\* every depth, and the parent's keys the overlay lacks keep the parent's value
Overridden(parent, overlay, merged) ==
    IF parent.k = "dict" /\ overlay.k = "dict"
    THEN /\ merged.k = "dict"
         /\ DOMAIN merged.v = DOMAIN parent.v \cup DOMAIN overlay.v
         /\ \A key \in DOMAIN parent.v \ DOMAIN overlay.v : merged.v[key] = parent.v[key]
         /\ \A key \in DOMAIN overlay.v \ DOMAIN parent.v : merged.v[key] = overlay.v[key]
         /\ \A key \in DOMAIN overlay.v \cap DOMAIN parent.v :
               Overridden(parent.v[key], overlay.v[key], merged.v[key])
    ELSE merged = overlay

\* the value of a key of a dict, None when the key is not there
Get(dict, key) == IF key \in DOMAIN dict.v THEN dict.v[key] ELSE PyNone

\* C14: the merged entry of a module both parent and overlay name keeps the
\* parent's source unless the overlay's entry has one, and its config is the
\* parent's config with the overlay's config laid over it.
C14_SharedModuleEntry ==
    Merged =>
       \A section \in ModuleSections :
          LET parent == ListOf(input.parent, section)
              overlay == ListOf(input.overlay, section)
              merged == ListOf(ret.val, section)
          IN  \A i \in 1..Len(parent) : \A j \in 1..Len(overlay) :
                 ModuleId(parent[i]) = ModuleId(overlay[j]) =>
                    LET entry == EntryOf(merged, ModuleId(parent[i]))
                    IN  /\ Get(entry, "source") =
                              IF "source" \in DOMAIN overlay[j].v
                              THEN overlay[j].v["source"] ELSE Get(parent[i], "source")
                        /\ IF "config" \in DOMAIN overlay[j].v /\ "config" \in DOMAIN parent[i].v
                           THEN Overridden(parent[i].v["config"], overlay[j].v["config"],
                                           entry.v["config"])
                           ELSE Get(entry, "config") =
                                   IF "config" \in DOMAIN overlay[j].v
                                   THEN overlay[j].v["config"] ELSE Get(parent[i], "config")

\* C14 witness: module b, which the parent has with a source and a config x, y,
\* was merged with an overlay entry that sets only config x.
C14_Witness ==
    /\ Merged
    /\ HasModule(ListOf(input.parent, "providers"), "b")
    /\ HasModule(ListOf(input.overlay, "providers"), "b")
    /\ EntryOf(ListOf(input.overlay, "providers"), "b").v =
          [module |-> PyStr("b"), config |-> PyDict([x |-> PyInt("1")])]
    /\ EntryOf(ListOf(ret.val, "providers"), "b").v["source"] = PyStr("git+b")
    /\ EntryOf(ListOf(ret.val, "providers"), "b").v["config"].v["x"] = PyInt("1")
    /\ EntryOf(ListOf(ret.val, "providers"), "b").v["config"].v["y"] = PyInt("0")

\* C15: with a list of names as the overlay's agents, the merged agents are the
\* parent's agents whose names are in the list, with the parent's values; names
\* the parent does not have are dropped.
C15_AgentsList ==
    Merged /\ ListFilter =>
       /\ "agents" \in DOMAIN ret.val.v
       /\ ret.val.v["agents"].k = "dict"
       /\ DOMAIN ret.val.v["agents"].v = DOMAIN ParentAgents(input.parent).v \cap FilterNames
       /\ \A name \in DOMAIN ret.val.v["agents"].v :
             ret.val.v["agents"].v[name] = input.parent.v["agents"].v[name]

\* C15 witness: the list names foo, bar and an agent the parent lacks, and the
\* merged agents are foo and bar.
C15_Witness ==
    /\ Merged
    /\ ListFilter
    /\ FilterNames = {"zzz", "bar", "foo"}
    /\ DOMAIN ret.val.v["agents"].v = {"foo", "bar"}

\* C16: with "none" as the overlay's agents, the merged agents are the empty
\* mapping, whatever the parent's agents.
C16_AgentsNone ==
    Merged /\ Get(input.overlay, "agents") = PyStr("none") =>
       Get(ret.val, "agents") = EmptyDict

\* C16 witness: a parent with agents foo and bar was merged with agents "none".
C16_Witness ==
    /\ Merged
    /\ Get(input.overlay, "agents") = PyStr("none")
    /\ DOMAIN ParentAgents(input.parent).v = {"foo", "bar"}
    /\ ret.val.v["agents"] = EmptyDict

\* an overlay with its agents value set to "all"
WithAll(overlay) ==
    PyDict([key \in DOMAIN overlay.v \cup {"agents"} |->
               IF key = "agents" THEN PyStr("all") ELSE overlay.v[key]])

\* C17: with "all" as the overlay's agents, or none, the merged agents are the
\* parent's, and an overlay merges the same with "all" as without agents.
C17_AgentsAllOrAbsent ==
    Merged /\ Get(input.overlay, "agents").k \in {"none", "str"}
           /\ Get(input.overlay, "agents").v \in {"", "all"} =>
       /\ Get(ret.val, "agents") = Get(input.parent, "agents")
       /\ ret.val = MergeConfigs(input.parent, WithAll(input.overlay))

\* C17 witness: a parent with agents foo and bar was merged with an overlay
\* that has no agents key and changes the providers.
C17_Witness ==
    /\ Merged
    /\ "agents" \notin DOMAIN input.overlay.v
    /\ "providers" \in DOMAIN input.overlay.v
    /\ DOMAIN ParentAgents(input.parent).v = {"foo", "bar"}
    /\ ret.val.v["agents"] = input.parent.v["agents"]

\* the config has a top-level name field or a meta.name field
HasName(config) ==
    \/ "name" \in DOMAIN config.v
    \/ /\ "meta" \in DOMAIN config.v
       /\ config.v["meta"].k = "dict"
       /\ "name" \in DOMAIN config.v["meta"].v

\* C18 as stated: validate fails with a configuration error exactly when the
\* config has neither name nor meta.name, and returns true in every other case.
C18_ValidateOutcome ==
    ret.op = "validate" =>
       ret.res = IF HasName(input.overlay) THEN "True" ELSE "ValueError"

(***************************************************************************)
(* The provenance tracker: build_effective_config_with_sources             *)
(* (src/amplifier_app_cli/commands/profile.py).  A provenance is a profile *)
(* name (a str) or a tuple (profile name, previous provenance).  sources   *)
(* is the dict of the provenance of every session field, module, config    *)
(* field and of the agents section.                                        *)
(***************************************************************************)
PyTuple(items) == [k |-> "tuple", v |-> items]

\* 'dict[key] = value'
SetItem(dict, key, value) ==
    PyDict([name \in DOMAIN dict.v \cup {key} |->
               IF name = key THEN value ELSE dict.v[name]])

\* 'dict.get(key, default)'
GetOr(dict, key, default) ==
    IF key \in DOMAIN dict.v THEN dict.v[key] ELSE default

\* 'sources: dict[str, Any] = {"session": {}, ..., "config_fields": {}}'
InitialSources ==
    PyDict([session |-> EmptyDict, providers |-> EmptyDict, tools |-> EmptyDict,
            hooks |-> EmptyDict, agents |-> EmptyDict, config_fields |-> EmptyDict])

\* the recorded provenance of a session field as it stands, history and all
SessionLastSource(sources, field) == sources.v["session"].v[field]

\* 'old_source = sources["session"][field]; if isinstance(old_source, tuple):
\* old_source = old_source[0]'
SessionOldSource(sources, field) ==
    LET old_source == sources.v["session"].v[field]
    IN  IF old_source.k = "tuple" THEN old_source.v[1] ELSE old_source

\* a provenance that names the profile alone, whatever came before
SessionNewSource(merged_so_far, sources, field, profile_name) == PyStr(profile_name)

\* the provenance of a session field the profile supplies: the profile's name
\* for a field merged_so_far does not have, (name, old source) for one it has
SessionSource(merged_so_far, sources, field, profile_name) ==
    IF field \notin DOMAIN GetOr(merged_so_far, "session", EmptyDict).v
    THEN PyStr(profile_name)
    ELSE PyTuple(<<PyStr(profile_name), SessionOldSource(sources, field)>>)

\* "Session fields": sources after the session section of the profile
TrackSession(merged_so_far, sources, profile_dict, profile_name) ==
    IF "session" \in DOMAIN profile_dict.v /\ profile_dict.v["session"].k = "dict"
    THEN LET session == profile_dict.v["session"]
             old == sources.v["session"]
         IN  SetItem(sources, "session",
                PyDict([field \in DOMAIN old.v \cup DOMAIN session.v |->
                           IF field \in DOMAIN session.v
                           THEN SessionSource(merged_so_far, sources, field, profile_name)
                           ELSE old.v[field]]))
    ELSE sources

\* 'isinstance(m, dict) and m.get("module") == module_id'
IsModule(m, module_id) ==
    /\ m.k = "dict"
    /\ "module" \in DOMAIN m.v
    /\ m.v["module"] = module_id

\* 'next((m for m in merged_section if ...), None)'
ExistingModule(merged_so_far, section, module_id) ==
    LET merged_section == GetOr(merged_so_far, section, PyList(<<>>))
        found == {i \in 1..Len(merged_section.v) : IsModule(merged_section.v[i], module_id)}
    IN  IF found = {} THEN PyNone
        ELSE merged_section.v[CHOOSE i \in found : \A j \in found : i <= j]

\* 'f"{section}.{module_id}"'
ConfigKey(section, module_id) == section \o "." \o module_id.v

\* 'old_source = sources[section][module_id]; if isinstance(old_source, tuple):
\* old_source = old_source[0]'
ModuleOldSource(sources, section, module_id) ==
    LET old_source == sources.v[section].v[module_id.v]
    IN  IF old_source.k = "tuple" THEN old_source.v[1] ELSE old_source

\* 'sources[section][module_id] = value'
SetModuleSource(sources, section, module_id, value) ==
    SetItem(sources, section, SetItem(sources.v[section], module_id.v, value))

\* 'sources.setdefault("config_modified_by", {})[section] = {}' when the section
\* is not there, then 'sources["config_modified_by"][section][module_id] = name'
SetConfigModifiedBy(sources, section, module_id, profile_name) ==
    LET modified_by == GetOr(sources, "config_modified_by", EmptyDict)
        of_section == GetOr(modified_by, section, EmptyDict)
    IN  SetItem(sources, "config_modified_by",
           SetItem(modified_by, section,
              SetItem(of_section, module_id.v, PyStr(profile_name))))

\* a tracker that leaves the provenance of an existing module alone
KeepModuleSource(sources, section, item, profile_name) == sources

\* "Module exists - check what this profile is actually changing": an item
\* with a source redefines the module, one with only a config leaves the
\* module with its old source and is recorded as the config's modifier
TrackModuleSource(sources, section, item, profile_name) ==
    LET module_id == item.v["module"]
        old_source == ModuleOldSource(sources, section, module_id)
    IN  IF "source" \in DOMAIN item.v
        THEN SetModuleSource(sources, section, module_id,
                PyTuple(<<PyStr(profile_name), old_source>>))
        ELSE IF "config" \in DOMAIN item.v
        THEN SetConfigModifiedBy(SetModuleSource(sources, section, module_id, old_source),
                section, module_id, profile_name)
        ELSE sources

\* "Track config field provenance": a field the existing module's config does
\* not have gets the profile's name, another (name, old provenance of the
\* field, or the module's old source when the field has none)
TrackConfigFields(sources, section, item, existing_module, old_source, profile_name) ==
    IF "config" \in DOMAIN item.v /\ item.v["config"].k = "dict"
    THEN LET config_key == ConfigKey(section, item.v["module"])
             config_fields == sources.v["config_fields"]
             old == GetOr(config_fields, config_key, EmptyDict)
             existing_config == GetOr(existing_module, "config", EmptyDict)
             config == item.v["config"]
         IN  SetItem(sources, "config_fields",
                SetItem(config_fields, config_key,
                   PyDict([cfg_field \in DOMAIN old.v \cup DOMAIN config.v |->
                              IF cfg_field \notin DOMAIN config.v THEN old.v[cfg_field]
                              ELSE IF cfg_field \notin DOMAIN existing_config.v
                              THEN PyStr(profile_name)
                              ELSE PyTuple(<<PyStr(profile_name),
                                             GetOr(old, cfg_field, old_source)>>)])))
    ELSE sources

\* the body of 'for item in items': sources after one item of a module list
TrackItem(merged_so_far, sources, section, item, profile_name) ==
    IF item.k = "dict" /\ "module" \in DOMAIN item.v
    THEN LET module_id == item.v["module"]
             existing_module == ExistingModule(merged_so_far, section, module_id)
         IN  IF existing_module.k = "none"
             THEN SetItem(SetModuleSource(sources, section, module_id, PyStr(profile_name)),
                     "config_fields",
                     SetItem(sources.v["config_fields"], ConfigKey(section, module_id),
                        EmptyDict))
             ELSE TrackConfigFields(
                     TrackModuleSource(sources, section, item, profile_name),
                     section, item, existing_module,
                     ModuleOldSource(sources, section, module_id), profile_name)
    ELSE sources

RECURSIVE TrackItems(_, _, _, _, _)
\* 'for item in items'
TrackItems(merged_so_far, sources, section, items, profile_name) ==
    IF items = <<>> THEN sources
    ELSE TrackItems(merged_so_far,
            TrackItem(merged_so_far, sources, section, Head(items), profile_name),
            section, Tail(items), profile_name)

\* 'if section in profile_dict: items = profile_dict[section]; if
\* isinstance(items, list): ...'
TrackSection(merged_so_far, sources, section, profile_dict, profile_name) ==
    IF section \in DOMAIN profile_dict.v /\ profile_dict.v[section].k = "list"
    THEN TrackItems(merged_so_far, sources, section, profile_dict.v[section].v, profile_name)
    ELSE sources

\* 'for section in ["providers", "tools", "hooks"]'
TrackModules(merged_so_far, sources, profile_dict, profile_name) ==
    TrackSection(merged_so_far,
       TrackSection(merged_so_far,
          TrackSection(merged_so_far, sources, "providers", profile_dict, profile_name),
          "tools", profile_dict, profile_name),
       "hooks", profile_dict, profile_name)

\* 'old_source = sources.get("agents", ""); if isinstance(old_source, tuple):
\* old_source = old_source[0]'
AgentsOldSource(sources) ==
    LET old_source == GetOr(sources, "agents", PyStr(""))
    IN  IF old_source.k = "tuple" THEN old_source.v[1] ELSE old_source

\* "Agents": the section as one unit
TrackAgents(merged_so_far, sources, profile_dict, profile_name) ==
    IF "agents" \in DOMAIN profile_dict.v
    THEN IF "agents" \notin DOMAIN merged_so_far.v
         THEN SetItem(sources, "agents", PyStr(profile_name))
         ELSE SetItem(sources, "agents",
                 PyTuple(<<PyStr(profile_name), AgentsOldSource(sources)>>))
    ELSE sources

\* sources after one pass of the loop over the chain
TrackProfile(merged_so_far, sources, profile_dict, profile_name) ==
    TrackAgents(merged_so_far,
       TrackModules(merged_so_far,
          TrackSession(merged_so_far, sources, profile_dict, profile_name),
          profile_dict, profile_name),
       profile_dict, profile_name)

\* a reshaping that keeps no module of the section
NoModules(merged_so_far, section) == EmptyDict

\* '{item["module"]: item for item in merged_so_far.get(section, []) if
\* isinstance(item, dict) and "module" in item}': a later item of the same
\* module replaces an earlier one
ByModule(merged_so_far, section) ==
    LET items == GetOr(merged_so_far, section, PyList(<<>>)).v
        keyed == {i \in 1..Len(items) : items[i].k = "dict" /\ "module" \in DOMAIN items[i].v}
    IN  PyDict([id \in {items[i].v["module"].v : i \in keyed} |->
                   items[CHOOSE i \in keyed :
                            /\ items[i].v["module"].v = id
                            /\ \A j \in keyed : items[j].v["module"].v = id => j <= i]])

\* "Handle agents structure": the items of the agents config by name
ByName(agents_config) ==
    IF agents_config.k = "dict"
    THEN LET agent_items == GetOr(agents_config, "items", PyList(<<>>)).v
             named == {i \in 1..Len(agent_items) :
                          agent_items[i].k = "dict" /\ "name" \in DOMAIN agent_items[i].v}
         IN  PyDict([name \in {agent_items[i].v["name"].v : i \in named} |->
                        agent_items[CHOOSE i \in named :
                                       /\ agent_items[i].v["name"].v = name
                                       /\ \A j \in named :
                                             agent_items[j].v["name"].v = name => j <= i]])
    ELSE EmptyDict

\* "Build final effective config from merged result"
EffectiveConfig(merged_so_far) ==
    LET agents_config == GetOr(merged_so_far, "agents", EmptyDict)
        config == PyDict([session |-> GetOr(merged_so_far, "session", EmptyDict),
                          providers |-> ByModule(merged_so_far, "providers"),
                          tools |-> ByModule(merged_so_far, "tools"),
                          hooks |-> ByModule(merged_so_far, "hooks"),
                          agents |-> ByName(agents_config)])
    IN  IF agents_config.k = "dict" /\ "dirs" \in DOMAIN agents_config.v
        THEN SetItem(config, "agent_dirs", agents_config.v["dirs"])
        ELSE config

(***************************************************************************)
(* SpecProv: an inheritance chain of raw profile dicts, root first, is     *)
(* walked by build_effective_config_with_sources, one profile a step.      *)
(***************************************************************************)
MaxChain == 3

\* the names of the profiles of a chain, root first
ProfileNames == <<"base", "mid", "top", "dev", "local">>

ModuleX == PyDict([module |-> PyStr("x"), source |-> PyStr("git+x")])

\* raw profile dicts: any of the sections may be left out
Profiles ==
    {EmptyDict,
     PyDict([session |-> PyDict([orchestrator |-> PyStr("loop-basic")])]),
     PyDict([session |-> PyDict([orchestrator |-> PyDict([module |-> PyStr("loop-streaming")]),
                                 context |-> PyStr("context-simple")])]),
     PyDict([providers |-> PyList(<<ModuleX>>)]),
     PyDict([providers |->
                PyList(<<PyDict([module |-> PyStr("x"),
                                 config |-> PyDict([temperature |-> PyStr("0.5")])])>>)]),
     PyDict([providers |->
                PyList(<<PyDict([module |-> PyStr("y")]),
                         PyDict([module |-> PyStr("x"), source |-> PyStr("git+x2"),
                                 config |-> PyDict([temperature |-> PyStr("0.7"),
                                                    model |-> PyStr("m")])])>>)]),
     PyDict([tools |-> PyList(<<PyDict([module |-> PyStr("tool-fs")])>>),
             hooks |-> PyList(<<PyDict([module |-> PyStr("hooks-logging"),
                                        config |-> PyDict([level |-> PyStr("info")])])>>)]),
     PyDict([agents |-> PyDict([dirs |-> PyList(<<PyStr("./agents")>>),
                                items |-> PyList(<<PyDict([name |-> PyStr("zen")])>>)])]),
     PyDict([session |-> PyDict([context |-> PyStr("context-persistent")]),
             providers |-> PyList(<<ModuleX>>),
             agents |-> PyDict([items |-> PyList(<<>>)])]),
     PyDict([session |-> PyDict([orchestrator |-> PyStr("loop-events")]),
             hooks |-> PyList(<<PyDict([module |-> PyStr("hooks-logging"),
                                        config |-> PyDict([level |-> PyStr("debug")])])>>)])}

\* chains as the loader returns them: as many names as dicts
Chains ==
    UNION {[chain_dicts : [1..n -> Profiles], chain_names : {SubSeq(ProfileNames, 1, n)}] :
              n \in 0..MaxChain}

\* the locals of a running build_effective_config_with_sources: i profiles done
Frame(i, merged_so_far, sources) ==
    [i |-> i, merged_so_far |-> merged_so_far, sources |-> sources]

\* 'zip(chain_dicts, chain_names, strict=False)' stops with the shorter list
ZipLen(chain_dicts, chain_names) ==
    IF Len(chain_dicts) <= Len(chain_names) THEN Len(chain_dicts) ELSE Len(chain_names)

InitProv ==
    /\ input \in Chains
    /\ StoreInit
    /\ ConcOff

\* build_effective_config_with_sources(chain_dicts, chain_names) up to the loop
BuildStart ==
    /\ pc = "idle"
    /\ pc' = "chain"
    /\ call' = Frame(0, EmptyDict, InitialSources)
    /\ UNCHANGED <<input, dirs, files, temps, ret>>
    /\ UNCHANGED conc

\* one pass of 'for _i, (profile_dict, profile_name) in enumerate(zip(...))'
BuildProfile ==
    /\ pc = "chain"
    /\ call.i < ZipLen(input.chain_dicts, input.chain_names)
    /\ LET profile_dict == input.chain_dicts[call.i + 1]
           profile_name == input.chain_names[call.i + 1]
       IN  call' = Frame(call.i + 1,
                         MergeProfileDicts(call.merged_so_far, profile_dict),
                         TrackProfile(call.merged_so_far, call.sources,
                                      profile_dict, profile_name))
    /\ UNCHANGED <<input, dirs, files, temps, pc, ret>>
    /\ UNCHANGED conc

\* the loop is over: "Build final effective config" and
\* 'return effective_config, sources'
BuildReturn ==
    /\ pc = "chain"
    /\ call.i = ZipLen(input.chain_dicts, input.chain_names)
    /\ pc' = "built"
    /\ ret' = Ret("build", "ok",
                  [effective_config |-> EffectiveConfig(call.merged_so_far),
                   sources |-> call.sources])
    /\ UNCHANGED <<input, dirs, files, temps, call>>
    /\ UNCHANGED conc

NextProv ==
    \/ BuildStart
    \/ BuildProfile
    \/ BuildReturn

SpecProv == InitProv /\ [][NextProv]_vars

(***************************************************************************)
(* Properties of the provenance tracker.                                   *)
(***************************************************************************)
\* the build is under way or has returned
Building == pc \in {"chain", "built"}

\* the sources as they stand: the local while the chain is walked, the
\* returned dict afterwards
Sources == IF pc = "built" THEN ret.val.sources ELSE call.sources

\* the profiles among the first n of the chain that supply the session field
Suppliers(field, n) ==
    {i \in 1..n : /\ "session" \in DOMAIN input.chain_dicts[i].v
                  /\ field \in DOMAIN input.chain_dicts[i].v["session"].v}

\* the last profile of a set of chain positions
Latest(positions) == CHOOSE i \in positions : \A j \in positions : j <= i

\* the name of the profile at a chain position, as a provenance
Label(i) == PyStr(input.chain_names[i])

SessionFieldNames == {"orchestrator", "context"}

\* C19: after any number of profiles of the chain, a session field no profile
\* has supplied has no provenance, a field one profile has supplied has that
\* profile's name, and a field several have supplied has the pair (name of the
\* last supplier, name of the supplier before it); profiles that do not
\* mention the field change nothing.
C19_SessionProvenance ==
    Building =>
       \A field \in SessionFieldNames :
          LET suppliers == Suppliers(field, call.i)
              recorded == Sources.v["session"].v
          IN  IF suppliers = {} THEN field \notin DOMAIN recorded
              ELSE /\ field \in DOMAIN recorded
                   /\ recorded[field] =
                         IF suppliers = {Latest(suppliers)}
                         THEN Label(Latest(suppliers))
                         ELSE PyTuple(<<Label(Latest(suppliers)),
                                        Label(Latest(suppliers \ {Latest(suppliers)}))>>)

\* C19 witness: the chain base, mid, top was walked to the end; base sets
\* session.orchestrator, mid does not mention it, top sets it again, and the
\* returned provenance is (top, base).
C19_Witness ==
    /\ pc = "built"
    /\ Len(input.chain_dicts) = 3
    /\ Suppliers("orchestrator", 3) = {1, 3}
    /\ ret.val.sources.v["session"].v["orchestrator"] =
          PyTuple(<<PyStr("top"), PyStr("base")>>)

\* a provenance that is one profile name
IsLabel(provenance) == provenance.k = "str"

\* C20: at every point of the walk and in the returned sources, the provenance
\* of a session field is a profile name or a tuple of exactly two profile
\* names, however many profiles override the field.
C20_LabelOrPair ==
    Building =>
       \A field \in DOMAIN Sources.v["session"].v :
          LET provenance == Sources.v["session"].v[field]
          IN  \/ IsLabel(provenance)
              \/ /\ provenance.k = "tuple"
                 /\ Len(provenance.v) = 2
                 /\ IsLabel(provenance.v[1])
                 /\ IsLabel(provenance.v[2])

\* C20 witness: all three profiles of a chain set session.orchestrator, so the
\* field was overridden twice, and the returned provenance is (top, mid).
C20_Witness ==
    /\ pc = "built"
    /\ Suppliers("orchestrator", Len(input.chain_dicts)) = {1, 2, 3}
    /\ ret.val.sources.v["session"].v["orchestrator"] =
          PyTuple(<<PyStr("top"), PyStr("mid")>>)

\* a step that tracks one more profile of the chain
ProfileStep == pc = "chain" /\ pc' = "chain" /\ call'.i = call.i + 1

\* the profiles among the first n of the chain that list the module in the section
Listers(section, id, n) ==
    {i \in 1..n : HasModule(ListOf(input.chain_dicts[i], section), id)}

\* the first profile of a set of chain positions
Earliest(positions) == CHOOSE i \in positions : \A j \in positions : i <= j

\* the config keys the profile at a chain position gives the module
ConfigKeys(section, id, i) ==
    LET item == EntryOf(ListOf(input.chain_dicts[i], section), id)
    IN  IF "config" \in DOMAIN item.v /\ item.v["config"].k = "dict"
        THEN DOMAIN item.v["config"].v ELSE {}

\* the profile at the chain position gives the module a config and no source
ConfigOnly(section, id, i) ==
    LET item == EntryOf(ListOf(input.chain_dicts[i], section), id)
    IN  "config" \in DOMAIN item.v /\ "source" \notin DOMAIN item.v

\* C21 as stated: when a profile gives only config for a module an earlier
\* profile introduced, the module's provenance after the step is the name of
\* the profile that introduced it, the profile is recorded as the modifier of
\* the module's config, and each config field it adds has the profile's name
\* as provenance under section.module.
C21_ConfigOnlyKeepsIntroducer ==
    [][ProfileStep =>
          \A section \in ModuleSections :
             \A id \in {"x", "y", "tool-fs", "hooks-logging"} :
                LET earlier == Listers(section, id, call.i)
                    recorded == call'.sources.v
                IN  (/\ earlier # {}
                     /\ call.i + 1 \in Listers(section, id, call.i + 1)
                     /\ ConfigOnly(section, id, call.i + 1))
                    => /\ recorded[section].v[id] = Label(Earliest(earlier))
                       /\ recorded["config_modified_by"].v[section].v[id] = Label(call.i + 1)
                       /\ \A field \in ConfigKeys(section, id, call.i + 1)
                                          \ UNION {ConfigKeys(section, id, j) : j \in earlier} :
                             recorded["config_fields"].v[section \o "." \o id].v[field]
                                = Label(call.i + 1)]_vars

\* the provenance a value has when these chain positions, in order, set it: the
\* name of the last, paired with the name of the one before when there is one
Expected(setters) ==
    IF setters = {Latest(setters)}
    THEN Label(Latest(setters))
    ELSE PyTuple(<<Label(Latest(setters)), Label(Latest(setters \ {Latest(setters)}))>>)

\* the profiles that set the module itself: the one that introduces it and
\* those that give it a source again
ModuleSetters(section, id) ==
    LET listers == Listers(section, id, Len(input.chain_dicts))
    IN  {i \in listers :
            \/ i = Earliest(listers)
            \/ "source" \in DOMAIN EntryOf(ListOf(input.chain_dicts[i], section), id).v}

\* the profiles that give the module a config with this field
FieldSetters(section, id, field) ==
    {i \in Listers(section, id, Len(input.chain_dicts)) : field \in ConfigKeys(section, id, i)}

\* the profiles that have an agents section
AgentsSetters == {i \in 1..Len(input.chain_dicts) : "agents" \in DOMAIN input.chain_dicts[i].v}

ModuleNames == {"x", "y", "tool-fs", "hooks-logging"}

ConfigFieldNames == {"temperature", "model", "level"}

\* the recorded provenance is the expected name or pair of names
SameProvenance(recorded, expected) ==
    /\ recorded.k = expected.k
    /\ IF expected.k = "tuple"
       THEN /\ Len(recorded.v) = 2
            /\ \A i \in 1..2 : recorded.v[i].k = "str" /\ recorded.v[i].v = expected.v[i].v
       ELSE recorded.v = expected.v

\* C22 as stated: in the returned sources, every session field, module, config
\* field of a module and the agents section that some profile of the chain set
\* has as provenance the name of the last profile that set it, paired, when an
\* earlier profile had set it, with the name of the profile that set it just
\* before.
C22_LastSetterAndPrevious ==
    pc = "built" =>
       LET recorded == ret.val.sources.v
           n == Len(input.chain_dicts)
       IN  /\ \A field \in SessionFieldNames :
                 Suppliers(field, n) # {} =>
                    /\ field \in DOMAIN recorded["session"].v
                    /\ SameProvenance(recorded["session"].v[field], Expected(Suppliers(field, n)))
           /\ AgentsSetters # {} => SameProvenance(recorded["agents"], Expected(AgentsSetters))
           /\ \A section \in ModuleSections : \A id \in ModuleNames :
                 Listers(section, id, n) # {} =>
                    /\ SameProvenance(recorded[section].v[id], Expected(ModuleSetters(section, id)))
                    /\ \A field \in ConfigFieldNames :
                          FieldSetters(section, id, field) # {} =>
                             LET fields == recorded["config_fields"].v[section \o "." \o id].v
                             IN  /\ field \in DOMAIN fields
                                 /\ SameProvenance(fields[field],
                                                   Expected(FieldSetters(section, id, field)))

(***************************************************************************)
(* The life of a session directory: save, save_profile, load and exists of *)
(* the store, "session delete" of the command line                         *)
(* (src/amplifier_app_cli/commands/session.py) and cleanup_old_sessions.   *)
(* Times are seconds; the clock reading of cleanup and the modification    *)
(* time stat() reports for each directory are given with the input.        *)
(***************************************************************************)
MaxDays == 2

\* timedelta(days=1) in seconds
DaySeconds == 86400

\* a session id whose directory name starts with a dot
HiddenId == <<".", "s">>

LifeIds == GoodIds \cup {HiddenId}

\* 'datetime.now(UTC)' when cleanup runs
Now == (MaxDays + 1) * DaySeconds

\* a cutoff that lies a second later
LateCutoff(now, days) == now - days * DaySeconds + 1

\* 'cutoff_time = datetime.now(UTC) - timedelta(days=days)' as a timestamp
CutoffTimestamp(now, days) == now - days * DaySeconds

\* 'session_dir.name.startswith(".")'
HiddenName(session_id) == Len(session_id) > 0 /\ session_id[1] = "."

\* the profile snapshots a session is started with
ProfileSnapshots == {PyDict([profile |-> PyDict([name |-> PyStr("dev")])])}

\* write_profile: the YAML front matter between "---" lines, then a line of text
WriteProfile(session_id, profile) ==
    <<[jt |-> "yaml", jv |-> profile], [jt |-> "text", jv |-> session_id]>>

\* shutil.rmtree(session_dir): the directory and all in it are gone, or, when
\* it raises, the directory stays, with its files or emptied of them
Rmtree(session_id, fails, emptied) ==
    IF fails
    THEN /\ dirs' = dirs
         /\ files' = IF emptied THEN [files EXCEPT ![session_id] = EmptyDir] ELSE files
         /\ temps' = IF emptied THEN [temps EXCEPT ![session_id] = {}] ELSE temps
    ELSE /\ dirs' = dirs \ {session_id}
         /\ files' = [files EXCEPT ![session_id] = EmptyDir]
         /\ temps' = [temps EXCEPT ![session_id] = {}]

\* save_profile(session_id, profile)
SaveProfile(session_id, profile, env) ==
    /\ pc = "idle"
    /\ IF InvalidId(session_id)
       THEN /\ ret' = Ret("save_profile", "ValueError", NoVal)
            /\ UNCHANGED <<dirs, files, temps>>
       ELSE LET w == AtomicWrite(files[session_id], temps[session_id], ProfileFile,
                                 "profile_", FALSE, WriteProfile(session_id, profile), env)
            IN  /\ dirs' = dirs \cup {session_id}
                /\ files' = [files EXCEPT ![session_id] = w.dir]
                /\ temps' = [temps EXCEPT ![session_id] = w.tmp]
                /\ ret' = Ret("save_profile", IF w.exc = "none" THEN "ok" ELSE w.exc, NoVal)
    /\ UNCHANGED <<input, pc, call>>
    /\ UNCHANGED conc

\* "amplifier session delete SESSION_ID": confirmed is the --force flag or the
\* answer "y"
SessionsDelete(session_id, confirmed, fails, emptied) ==
    /\ pc = "idle"
    /\ IF ~ExistsIn(session_id, dirs)
       THEN /\ ret' = Ret("delete", "exit 1", NoVal)
            /\ UNCHANGED <<dirs, files, temps>>
       ELSE IF ~confirmed
       THEN /\ ret' = Ret("delete", "cancelled", NoVal)
            /\ UNCHANGED <<dirs, files, temps>>
       ELSE /\ Rmtree(session_id, fails, emptied)
            /\ ret' = Ret("delete", IF fails THEN "exit 1" ELSE "ok", NoVal)
    /\ UNCHANGED <<input, pc, call>>
    /\ UNCHANGED conc

\* the directories cleanup looks at: 'session_dir.is_dir() and not
\* session_dir.name.startswith(".")'
Candidates == {id \in dirs : ~HiddenName(id)}

\* 'if mtime < cutoff_timestamp': the directories cleanup removes
Old(now, days) == {id \in Candidates : input.mtime[id] < CutoffTimestamp(now, days)}

\* cleanup_old_sessions(days): rmtree raises for the directories in failing
CleanupOldSessions(days, failing, emptied) ==
    /\ pc = "idle"
    /\ IF days < 0
       THEN /\ ret' = Ret("cleanup", "ValueError", 0)
            /\ UNCHANGED <<dirs, files, temps>>
       ELSE LET old == Old(input.now, days)
                removed == old \ failing
                cleared == IF emptied THEN old ELSE removed
            IN  /\ failing \subseteq old
                /\ dirs' = dirs \ removed
                /\ files' = [id \in DOMAIN files |->
                                IF id \in cleared THEN EmptyDir ELSE files[id]]
                /\ temps' = [id \in DOMAIN temps |->
                                IF id \in cleared THEN {} ELSE temps[id]]
                /\ ret' = Ret("cleanup", "ok", Cardinality(removed))
    /\ UNCHANGED <<input, pc, call>>
    /\ UNCHANGED conc

(***************************************************************************)
(* SpecLife: one process using every operation on the session directories. *)
(***************************************************************************)
InitLife ==
    /\ input \in {[days |-> days, now |-> Now, mtime |-> mtime] :
                     days \in {-1, MaxDays - 1, MaxDays},
                     mtime \in [GoodIds -> {Now - MaxDays * DaySeconds + e : e \in {-1, 0, 1}}]}
    /\ dirs = {}
    /\ files = [id \in LifeIds \cup BadIds |-> EmptyDir]
    /\ temps = [id \in LifeIds \cup BadIds |-> {}]
    /\ pc = "idle"
    /\ call = NoCall
    /\ ret = Ret("none", "ok", NoVal)
    /\ ConcOff

NextLife ==
    \/ \E session_id \in GoodIds \cup {<<".", ".">>} :
          Save(session_id, <<UserMsg>>, PlainMeta)
    \/ \E env \in {NoFault, [NoFault EXCEPT !.fault = "write"]} : SaveTranscript(env)
    \/ SaveMetadata(NoFault)
    \/ \E session_id \in {<<"s">>, HiddenId, <<>>}, profile \in ProfileSnapshots,
          env \in {NoFault, [NoFault EXCEPT !.fault = "create"]} :
          SaveProfile(session_id, profile, env)
    \/ \E session_id \in {<<"s">>, <<" ">>} : Load(session_id)
    \/ \E session_id \in {<<"p", "-", "c">>, <<".">>} : Exists(session_id)
    \/ \E session_id \in LifeIds \cup {<<".", ".">>}, confirmed, fails, emptied \in BOOLEAN :
          SessionsDelete(session_id, confirmed, fails, emptied)
    \/ \E failing \in SUBSET dirs, emptied \in BOOLEAN :
          CleanupOldSessions(input.days, failing, emptied)

SpecLife == InitLife /\ [][NextLife]_vars

(***************************************************************************)
(* Properties of cleanup and of the life of a session directory.           *)
(***************************************************************************)
\* C23: a cleanup that returns removes only directories whose modification
\* time is strictly before now minus days (one at the cutoff or newer stays),
\* and returns the number of directories it removed.
C23_StrictlyOlder ==
    [][ret'.op = "cleanup" /\ ret'.res = "ok" =>
          /\ \A id \in dirs \ dirs' :
                input.mtime[id] < input.now - input.days * DaySeconds
          /\ ret'.val = Cardinality(dirs \ dirs')]_vars

\* C23 witness: cleanup removed one session and kept another whose
\* modification time is exactly the cutoff.
C23_Witness ==
    /\ ret.op = "cleanup"
    /\ ret.res = "ok"
    /\ ret.val = 1
    /\ \E id \in dirs :
          /\ ~HiddenName(id)
          /\ input.mtime[id] = input.now - input.days * DaySeconds

\* C26 as stated: a session directory comes into existence only through a
\* save of that id.
C26_CreatedBySaveOnly ==
    [][\A id \in LifeIds :
          id \notin dirs /\ id \in dirs' =>
             ret'.op = "save" /\ call'.session_id = id]_vars

\* C26: a session directory comes into existence only through save or
\* save_profile, stays through every later save, load and exists, and goes
\* only through "session delete" or cleanup.
C26_Lifecycle ==
    [][\A id \in LifeIds :
          /\ id \notin dirs /\ id \in dirs' => ret'.op \in {"save", "save_profile"}
          /\ id \in dirs /\ id \notin dirs' => ret'.op \in {"delete", "cleanup"}]_vars

\* C26 witness: save_profile made the directory of a session that was never
\* saved; it holds the profile snapshot and no transcript.
C26_Witness ==
    /\ ret.op = "save_profile"
    /\ ret.res = "ok"
    /\ <<"s">> \in dirs
    /\ files[<<"s">>][ProfileFile].kind = "text"
    /\ files[<<"s">>][TranscriptFile].kind = "absent"
    /\ files[<<"s">>][TranscriptBackup].kind = "absent"

(***************************************************************************)
(* SpecSan: the sanitizer applied to a message, and again to its result.   *)
(***************************************************************************)
MaxItems == 2

\* the values at the leaves of a message: None, a string, and an object of the
\* provider SDK that json cannot serialize
Leaves == {PyNone, PyStr("hi"), PyObj("ThinkingBlock")}

\* lists of at most MaxItems leaves
LeafLists == {PyList(items) : items \in UNION {[1..n -> Leaves] : n \in 0..MaxItems}}

\* the dict forms of a thinking block and of a content part
LeafDicts ==
    {EmptyDict}
       \cup {PyDict([text |-> value]) : value \in Leaves \cup {PyList(<<PyNone, PyStr("hi")>>)}}
       \cup {PyDict([text |-> PyDict([thinking_block |-> PyDict([text |-> PyStr("hi")])])]),
             PyDict([type |-> PyStr("text"), signature |-> PyNone])}

FieldValues == Leaves \cup LeafLists \cup LeafDicts

\* the messages handed to _sanitize_message: dicts with a role and one more
\* field, and values that are not dicts
SanitizerInputs ==
    {PyDict([role |-> PyStr("assistant")]), ToolCallMsg, ModelMsg}
       \cup {PyDict([role |-> PyStr("assistant"), content |-> value]) : value \in FieldValues}
       \cup {PyDict([role |-> PyStr("assistant"), thinking_block |-> value]) :
                value \in FieldValues}
       \cup {PyDict([role |-> PyStr("assistant"), content_blocks |-> value]) :
                value \in LeafLists}
       \cup LeafLists \cup Leaves

InitSan ==
    /\ input \in [message : SanitizerInputs]
    /\ StoreInit
    /\ ConcOff

\* "sanitized_message = self._sanitize_message(message)"
Sanitize ==
    /\ ret.op = "none"
    /\ ret' = Ret("sanitize", "ok", SanitizeMessage(input.message))
    /\ UNCHANGED <<input, dirs, files, temps, pc, call>>
    /\ UNCHANGED conc

\* _sanitize_message applied to what it returned
SanitizeAgain ==
    /\ ret.op = "sanitize"
    /\ ret' = Ret("sanitize again", "ok",
                  [once |-> ret.val, twice |-> SanitizeMessage(ret.val)])
    /\ UNCHANGED <<input, dirs, files, temps, pc, call>>
    /\ UNCHANGED conc

NextSan ==
    \/ Sanitize
    \/ SanitizeAgain

SpecSan == InitSan /\ [][NextSan]_vars

(***************************************************************************)
(* Properties of the sanitizer.                                            *)
(***************************************************************************)
\* C24 as stated: sanitizing the sanitizer's result gives that result again.
C24_Idempotent ==
    ret.op = "sanitize again" => ret.val.twice = ret.val.once

RECURSIVE Plain(_)
\* built from primitives, dicts and lists only, with no thinking_block or
\* content_blocks key in any dict
Plain(value) ==
    CASE Primitive(value) -> TRUE
      [] value.k = "dict" ->
            /\ DOMAIN value.v \cap {"thinking_block", "content_blocks"} = {}
            /\ \A key \in DOMAIN value.v : Plain(value.v[key])
      [] value.k = "list" -> \A i \in 1..Len(value.v) : Plain(value.v[i])
      [] OTHER -> FALSE

\* C25 as stated: a message that is a dict built from primitives, dicts and
\* lists, with no thinking_block or content_blocks key, is returned equal to
\* itself.
C25_PlainUnchanged ==
    ret.op = "sanitize" /\ input.message.k = "dict" /\ Plain(input.message) =>
       ret.val = input.message

(***************************************************************************)
(* More properties of the provenance tracker.                              *)
(***************************************************************************)
\* the profile at the chain position gives the module a source
GivesSource(section, id, i) ==
    "source" \in DOMAIN EntryOf(ListOf(input.chain_dicts[i], section), id).v

\* the profiles among the first n that set the module itself: the one that
\* introduces it and those that give it a source again
SettersUpTo(section, id, n) ==
    {i \in Listers(section, id, n) :
        i = Earliest(Listers(section, id, n)) \/ GivesSource(section, id, i)}

\* C27: when a profile gives a source for a module that an earlier profile of
\* the chain has listed, the module's provenance after the step is the pair
\* (the profile's name, the name of the profile that set the module last
\* before it), with or without a config in the same entry.
C27_SourceRedefines ==
    [][ProfileStep =>
          \A section \in ModuleSections : \A id \in ModuleNames :
             (/\ Listers(section, id, call.i) # {}
              /\ call.i + 1 \in Listers(section, id, call.i + 1)
              /\ GivesSource(section, id, call.i + 1))
             => SameProvenance(call'.sources.v[section].v[id],
                               PyTuple(<<Label(call.i + 1),
                                         Label(Latest(SettersUpTo(section, id, call.i)))>>))]_vars

\* C27 witness: base introduced provider x, mid gave it a new source and a
\* config, and the provenance of x is (mid, base).
C27_Witness ==
    /\ pc = "chain"
    /\ call.i = 2
    /\ 1 \in Listers("providers", "x", 2)
    /\ 2 \in Listers("providers", "x", 2)
    /\ GivesSource("providers", "x", 2)
    /\ ConfigKeys("providers", "x", 2) # {}
    /\ SameProvenance(call.sources.v["providers"].v["x"],
                      PyTuple(<<PyStr("mid"), PyStr("base")>>))

\* C28 as stated: in what build_effective_config_with_sources returns, every
\* config key of every providers, tools and hooks module of the effective
\* config has a provenance under section.module, the keys given by the
\* profile that introduced the module included.
C28_EveryConfigFieldTracked ==
    pc = "built" =>
       \A section \in ModuleSections :
          LET modules == ret.val.effective_config.v[section].v
          IN  \A id \in DOMAIN modules :
                 \A field \in DOMAIN GetOr(modules[id], "config", EmptyDict).v :
                    LET key == section \o "." \o id
                        tracked == ret.val.sources.v["config_fields"].v
                    IN  key \in DOMAIN tracked /\ field \in DOMAIN tracked[key].v

(***************************************************************************)
(* The merged values of the provenance tracker.                            *)
(***************************************************************************)
\* the Config Merger folded from the left over the first n profiles of the
\* chain, root first, starting from the empty config
RECURSIVE Fold(_)
Fold(n) ==
    IF n = 0
    THEN EmptyDict
    ELSE MergeProfileDicts(Fold(n - 1), input.chain_dicts[n])

\* the items of a section of a merged config that name a module
ModuleItems(merged, section) ==
    LET items == GetOr(merged, section, PyList(<<>>)).v
    IN  {items[i] : i \in {j \in 1..Len(items) :
                             items[j].k = "dict" /\ "module" \in DOMAIN items[j].v}}

\* C29: while the chain is walked the running total is the left fold of the
\* Config Merger over the profiles done so far, whatever provenance has been
\* recorded; the effective configuration returned has the session of the
\* fold over the whole chain and, for providers, tools and hooks, a mapping
\* that holds exactly the module items of the fold, each under its module id
C29_FoldOfMerger ==
    /\ (pc = "chain") => (call.merged_so_far = Fold(call.i))
    /\ (pc = "built") =>
          LET merged == Fold(Len(input.chain_dicts))
              effective == ret.val.effective_config.v
          IN  /\ effective["session"] = GetOr(merged, "session", EmptyDict)
              /\ \A section \in ModuleSections :
                    /\ DOMAIN effective[section].v
                          = {item.v["module"].v : item \in ModuleItems(merged, section)}
                    /\ \A item \in ModuleItems(merged, section) :
                          effective[section].v[item.v["module"].v] = item

\* a chain of MaxChain profiles has been merged: two providers from different
\* profiles, one of them with config from two profiles, and a session
C29_Witness ==
    /\ pc = "built"
    /\ Len(input.chain_dicts) = MaxChain
    /\ DOMAIN ret.val.effective_config.v["providers"].v = {"x", "y"}
    /\ \E i, j \in Listers("providers", "x", MaxChain) :
          /\ i < j
          /\ ConfigKeys("providers", "x", i) # {}
          /\ ConfigKeys("providers", "x", j) # ConfigKeys("providers", "x", i)
    /\ DOMAIN ret.val.effective_config.v["session"].v # {}

(***************************************************************************)
(* SpecBackup: one process saves its session again and again, each save    *)
(* with its own transcript, metadata and faults, and keeps a log of its    *)
(* last two saves; between calls it loads the session, and a user may      *)
(* change the primary files by hand, which ends the run of saves logged.   *)
(***************************************************************************)
\* what the process saves: the conversation so far and its metadata
SaveArgs ==
    {[transcript |-> SubSeq(Conversation, 1, 3), metadata |-> PlainMeta],
     [transcript |-> Conversation, metadata |-> PlainMeta],
     [transcript |-> Conversation, metadata |-> NestedMeta],
     [transcript |-> Turns(0), metadata |-> NestedMeta]}

WriteFault == [fault |-> "write", unlinkFails |-> FALSE, backupFails |-> FALSE]

CopyFault == [fault |-> "none", unlinkFails |-> FALSE, backupFails |-> TRUE]

\* the environments of the two writes of one save
SaveEnvironments ==
    {[transcript |-> NoFault, metadata |-> NoFault],
     [transcript |-> CopyFault, metadata |-> NoFault],
     [transcript |-> NoFault, metadata |-> CopyFault],
     [transcript |-> NoFault, metadata |-> WriteFault]}

\* a logged save: what it was to write to the two files, whether it returned,
\* and whether its backup copies were made
Attempt(transcript, metadata, ok, copied) ==
    [transcript |-> transcript, metadata |-> metadata, ok |-> ok, copied |-> copied]

NoAttempt == Attempt(Absent, Absent, FALSE, FALSE)

Log(before, last) == [before |-> before, last |-> last]

InitBackup ==
    /\ input = NoInput(<<"s">>)
    /\ dirs = {}
    /\ files = [id \in SessionIds |-> EmptyDir]
    /\ temps = [id \in SessionIds |-> {}]
    /\ pc = "idle"
    /\ call = Log(NoAttempt, NoAttempt)
    /\ ret = Ret("none", "ok", NoVal)
    /\ ConcOff

\* save(session_id, transcript, metadata) from call to return: mkdir,
\* _save_transcript, then _save_metadata unless the transcript write raised
SaveLogged(args, env) ==
    /\ pc = "idle"
    /\ LET dir == files[Sid]
           t == SaveTranscriptFile(dir, temps[Sid], args.transcript, env.transcript)
           m == IF t.exc = "none"
                THEN SaveMetadataFile(t.dir, t.tmp, args.metadata, env.metadata)
                ELSE t
       IN  /\ dirs' = dirs \cup {Sid}
           /\ files' = [files EXCEPT ![Sid] = m.dir]
           /\ temps' = [temps EXCEPT ![Sid] = m.tmp]
           /\ ret' = Ret("save", IF m.exc = "none" THEN "ok" ELSE m.exc, NoVal)
           /\ call' = Log(call.last,
                          Attempt(Text(WriteTranscript(args.transcript)),
                                  Text(WriteMetadata(args.metadata)),
                                  m.exc = "none",
                                  /\ FileExists(dir[TranscriptFile]) => ~env.transcript.backupFails
                                  /\ FileExists(dir[MetadataFile]) => ~env.metadata.backupFails))
    /\ UNCHANGED <<input, pc>>
    /\ UNCHANGED conc

\* the user changes a primary file between two calls of the store
Modify(name, kind) ==
    /\ pc = "idle"
    /\ Sid \in dirs
    /\ FileExists(files[Sid][name])
    /\ files[Sid][name].kind = "text"
    /\ Garbage \notin {files[Sid][name].lines[i] : i \in 1..Len(files[Sid][name].lines)}
    /\ files' = [files EXCEPT ![Sid][name] = Edited(files[Sid][name], name, kind)]
    /\ call' = Log(NoAttempt, NoAttempt)
    /\ ret' = Ret("edit", "ok", NoVal)
    /\ UNCHANGED <<input, dirs, temps, pc>>
    /\ UNCHANGED conc

\* load(session_id) between two saves
LoadLogged ==
    /\ pc = "idle"
    /\ LET r == LoadFrom(Sid, dirs, files)
       IN  ret' = Ret("load", r.res, r.val)
    /\ UNCHANGED <<input, dirs, files, temps, pc, call>>
    /\ UNCHANGED conc

NextBackup ==
    \/ \E args \in SaveArgs, env \in SaveEnvironments : SaveLogged(args, env)
    \/ \E name \in {TranscriptFile, MetadataFile}, kind \in EditKinds : Modify(name, kind)
    \/ LoadLogged

SpecBackup == InitBackup /\ [][NextBackup]_vars

\* the two saves logged both returned, the second right after the first
TwoSaves == call.before.ok /\ call.last.ok

\* the backups hold what the save before the last wrote and the primaries
\* what the last save wrote
BackupsOneBehind ==
    /\ files[Sid][TranscriptBackup] = call.before.transcript
    /\ files[Sid][MetadataBackup] = call.before.metadata
    /\ files[Sid][TranscriptFile] = call.last.transcript
    /\ files[Sid][MetadataFile] = call.last.metadata

\* a load that returned gave the parsed primary of each file whose primary
\* is there and parses: the backup was not what it read
PrimaryFirst ==
    (ret.op = "load" /\ ret.res = "ok") =>
       /\ Valid(files[Sid][TranscriptFile], ReadTranscript(files[Sid][TranscriptFile]))
             => ret.val.transcript = ReadTranscript(files[Sid][TranscriptFile]).val
       /\ Valid(files[Sid][MetadataFile], ReadMetadata(files[Sid][MetadataFile]))
             => ret.val.metadata = ReadMetadata(files[Sid][MetadataFile]).val

NextOnce ==
    \/ /\ ret.op = "none"
       /\ Save(input.session_id, input.transcript, input.metadata)
    \/ \E env \in Environments : SaveTranscript(env)
    \/ \E env \in Environments : SaveMetadata(env)
    \/ Load(input.session_id)
    \/ \E name \in {TranscriptFile, MetadataFile}, kind \in EditKinds :
          HandEdit(input.session_id, name, kind)

SpecOnce == InitRound /\ [][NextOnce]_vars

\* metadata.json is there and no longer holds what the save wrote
MetadataCorrupted ==
    /\ FileExists(files[Sid][MetadataFile])
    /\ files[Sid][MetadataFile] # Text(WriteMetadata(input.metadata))

\* C31 as stated: the one save of a new session leaves no backup file, and a
\* load after metadata.json has been corrupted returns the minimal recovered
\* metadata, which shares no key with the saved metadata but session_id
C31_FirstSaveNoBackup ==
    /\ ~FileExists(files[Sid][TranscriptBackup])
    /\ ~FileExists(files[Sid][MetadataBackup])
    /\ (ret.op = "load" /\ MetadataCorrupted) =>
          /\ ret.res \in {"ok", LoadTranscript(files[Sid]).exc}
          /\ (ret.res = "ok") =>
                /\ ret.val.metadata = MinimalMetadata(Sid)
                /\ DOMAIN ret.val.metadata.v \cap DOMAIN input.metadata.v \subseteq {"session_id"}

\* the key occurs in the value, at some depth of its dicts and lists
RECURSIVE Mentions(_, _)
Mentions(value, key) ==
    IF value.k = "dict"
    THEN key \in DOMAIN value.v \/ \E field \in DOMAIN value.v : Mentions(value.v[field], key)
    ELSE IF value.k = "list"
    THEN \E i \in 1..Len(value.v) : Mentions(value.v[i], key)
    ELSE FALSE

\* the message is a dict whose thinking_block is a dict with a text
HasThinkingText(message) ==
    /\ message.k = "dict"
    /\ "thinking_block" \in DOMAIN message.v
    /\ message.v["thinking_block"].k = "dict"
    /\ "text" \in DOMAIN message.v["thinking_block"].v

\* C32 as stated: the sanitized message has no thinking_block and no
\* content_blocks key at any depth, and a message whose thinking_block had a
\* text has thinking_text with that text and nothing else of the block
C32_NoRawBlocks ==
    ret.op = "sanitize" =>
       /\ ~Mentions(ret.val, "thinking_block")
       /\ ~Mentions(ret.val, "content_blocks")
       /\ HasThinkingText(input.message) =>
             /\ "thinking_text" \in DOMAIN ret.val.v
             /\ ret.val.v["thinking_text"] = input.message.v["thinking_block"].v["text"]
             /\ DOMAIN ret.val.v \subseteq (DOMAIN input.message.v \ {"thinking_block"})
                                              \cup {"thinking_text"}

(***************************************************************************)
(* SpecChat: the interactive loop of interactive_chat and                  *)
(* interactive_chat_with_session.  The user types prompts, commands, empty *)
(* lines, exit or Ctrl-D, and presses Ctrl-C at any moment of a turn; the  *)
(* orchestrator answers, fails or is cancelled; the store may fail to      *)
(* write.  `call` holds the locals of the loop and the module global       *)
(* _abort_requested.                                                       *)
(***************************************************************************)
MaxPrompts == 2

\* what the user enters at the prompt; "eof" is Ctrl-D
InputKinds == {"exit", "empty", "command", "prompt", "eof"}

\* the messages of the context module after n turns that were answered
Running(n) == <<SystemMsg>> \o Turns(n)

\* 'len([m for m in messages if m.get("role") == "user"])'
TurnCount(messages) ==
    Cardinality({i \in 1..Len(messages) : MsgRole(messages[i]) = PyStr("user")})

\* the metadata built before store.save; the count is written as its digits
\* and the clock ("created") is not modelled
ChatMetadata(messages) ==
    PyDict([session_id |-> PyStr(IdString(Sid)), profile |-> PyStr("dev"),
            model |-> PyStr("unknown"),
            turn_count |-> PyStr(<<"0", "1", "2", "3", "4">>[TurnCount(messages) + 1])])

\* the locals of the loop: prompts run so far, turns answered, the SIGINT
\* handler installed, _abort_requested, the state of execute_task, and of
\* the turn under way whether a response came back, whether store.save was
\* called, and the session directory as it was when the prompt was read
Locals(prompts, answered, handler, abort, task, responded, saved, persisted) ==
    [prompts |-> prompts, answered |-> answered, handler |-> handler, abort |-> abort,
     task |-> task, responded |-> responded, saved |-> saved, persisted |-> persisted]

InitChat ==
    /\ input \in [session_id : {<<"s">>}, resumed : BOOLEAN, context : BOOLEAN]
    /\ dirs = {}
    /\ files = [id \in SessionIds |-> EmptyDir]
    /\ temps = [id \in SessionIds |-> {}]
    /\ pc = "prompt"
    /\ call = Locals(0, 0, "original", FALSE, "none", FALSE, FALSE, EmptyDir)
    /\ ret = Ret("none", "ok", NoVal)
    /\ ConcOff

\* 'user_input = await prompt_session.prompt_async()' up to the creation of
\* execute_task: exit, quit and Ctrl-D leave the loop, an empty line and a
\* command come back to the prompt, a prompt installs sigint_handler
ReadPrompt(kind) ==
    /\ pc = "prompt"
    /\ CASE kind \in {"exit", "eof"} ->
               /\ pc' = "ended"
               /\ UNCHANGED call
         [] kind \in {"empty", "command"} ->
               UNCHANGED <<pc, call>>
         [] OTHER ->
               /\ call.prompts < MaxPrompts
               /\ pc' = "polling"
               /\ call' = Locals(call.prompts + 1, call.answered, "sigint", FALSE,
                                 "running", FALSE, FALSE, files[Sid])
    /\ ret' = IF kind = "prompt" THEN Ret("turn", "running", NoVal) ELSE ret
    /\ UNCHANGED <<input, dirs, files, temps>>
    /\ UNCHANGED conc

\* Ctrl-C while sigint_handler is installed: '_abort_requested = True'
CtrlC ==
    /\ call.handler = "sigint"
    /\ ~call.abort
    /\ call' = [call EXCEPT !.abort = TRUE]
    /\ UNCHANGED <<input, dirs, files, temps, pc, ret>>
    /\ UNCHANGED conc

\* session.execute returns a response or raises while the loop sleeps
TaskEnds(outcome) ==
    /\ pc = "polling"
    /\ call.task = "running"
    /\ call' = [call EXCEPT !.task = outcome]
    /\ UNCHANGED <<input, dirs, files, temps, pc, ret>>
    /\ UNCHANGED conc

\* 'while not execute_task.done(): if _abort_requested: execute_task.cancel();
\* break': the loop is left when the task is done or has been cancelled
Poll ==
    /\ pc = "polling"
    /\ call.task # "running" \/ call.abort
    /\ pc' = "result"
    /\ call' = [call EXCEPT !.task = IF call.task = "running" THEN "cancelled" ELSE @]
    /\ UNCHANGED <<input, dirs, files, temps, ret>>
    /\ UNCHANGED conc

\* 'response = await execute_task' and render_message: a response goes on to
\* the hook (interactive_chat) or the save, CancelledError prints "Aborted",
\* another exception leaves the try block
AwaitTask ==
    /\ pc = "result"
    /\ CASE call.task = "done" ->
               /\ pc' = IF input.resumed THEN "save" ELSE "emit"
               /\ call' = [call EXCEPT !.responded = TRUE, !.answered = @ + 1]
               /\ ret' = Ret("turn", "response", NoVal)
         [] call.task = "cancelled" ->
               /\ pc' = "finally"
               /\ ret' = Ret("turn", "aborted", NoVal)
               /\ UNCHANGED call
         [] OTHER ->
               /\ pc' = "finally"
               /\ ret' = Ret("turn", "error", NoVal)
               /\ UNCHANGED call
    /\ UNCHANGED <<input, dirs, files, temps>>
    /\ UNCHANGED conc

\* 'await hooks.emit(PROMPT_COMPLETE, ...)': a hook that raises leaves the try
EmitComplete(raises) ==
    /\ pc = "emit"
    /\ pc' = IF raises THEN "finally" ELSE "save"
    /\ ret' = Ret("turn", IF raises THEN "hook raised" ELSE "response", NoVal)
    /\ UNCHANGED <<input, dirs, files, temps, call>>
    /\ UNCHANGED conc

\* a turn that goes on to the finally block without saving
SaveSkipped(env) ==
    /\ pc = "save"
    /\ pc' = "finally"
    /\ env = NoFault
    /\ ret' = Ret("turn", "response", NoVal)
    /\ UNCHANGED <<input, dirs, files, temps, call>>
    /\ UNCHANGED conc

\* 'if context and hasattr(context, "get_messages"): ... store.save(session_id,
\* messages, metadata)', the whole save
SaveTurn(env) ==
    /\ pc = "save"
    /\ pc' = "finally"
    /\ IF input.context
       THEN LET messages == Running(call.answered)
                t == SaveTranscriptFile(files[Sid], temps[Sid], messages, env)
                m == IF t.exc = "none"
                     THEN SaveMetadataFile(t.dir, t.tmp, ChatMetadata(messages), NoFault)
                     ELSE t
            IN  /\ dirs' = dirs \cup {Sid}
                /\ files' = [files EXCEPT ![Sid] = m.dir]
                /\ temps' = [temps EXCEPT ![Sid] = m.tmp]
                /\ call' = [call EXCEPT !.saved = TRUE]
                /\ ret' = Ret("turn", IF m.exc = "none" THEN "saved" ELSE "error", NoVal)
       ELSE /\ env = NoFault
            /\ ret' = Ret("turn", "response", NoVal)
            /\ UNCHANGED <<dirs, files, temps, call>>
    /\ UNCHANGED input
    /\ UNCHANGED conc

\* 'finally: signal.signal(signal.SIGINT, original_handler);
\* _abort_requested = False', then back to the prompt
Restore ==
    /\ pc = "finally"
    /\ pc' = "prompt"
    /\ call' = [call EXCEPT !.handler = "original", !.abort = FALSE]
    /\ UNCHANGED <<input, dirs, files, temps, ret>>
    /\ UNCHANGED conc

NextChat ==
    \/ \E kind \in InputKinds : ReadPrompt(kind)
    \/ CtrlC
    \/ \E outcome \in {"done", "failed"} : TaskEnds(outcome)
    \/ Poll
    \/ AwaitTask
    \/ \E raises \in BOOLEAN : EmitComplete(raises)
    \/ \E env \in {NoFault, WriteFault} : SaveTurn(env)
    \/ Restore

SpecChat == InitChat /\ [][NextChat]_vars

(***************************************************************************)
(* Properties of the interactive loop.                                     *)
(***************************************************************************)
\* the loop is between two turns: at the prompt or left
BetweenTurns == pc \in {"prompt", "ended"}

\* the turn just over was cancelled by Ctrl-C: no save was called and the
\* session directory is as it was when the prompt was read
CancelledSavesNothing ==
    (BetweenTurns /\ call.task = "cancelled") =>
       /\ ~call.saved
       /\ files[Sid] = call.persisted

\* between turns the original SIGINT handler is installed and
\* _abort_requested is False
HandlerRestored == BetweenTurns => (call.handler = "original" /\ ~call.abort)

\* a save that returned wrote the full running transcript and its metadata
SavedInFull ==
    (BetweenTurns /\ ret.res = "saved") =>
       /\ files[Sid][TranscriptFile] = Text(WriteTranscript(Running(call.answered)))
       /\ files[Sid][MetadataFile] = Text(WriteMetadata(ChatMetadata(Running(call.answered))))

MaxDepth == 2

\* the agents values of an overlay: the Smart Single Values and values that
\* are none of them (a mapping of agent configs, a bool, another word)
DelegateFilters ==
    AgentFilters \cup {PyDict([rogue |-> PyDict([description |-> PyStr("rogue agent")])]),
                       PyTrue, PyStr("None")}

DelegateOverlays ==
    {Sections([name |-> PyStr("zen"), session |-> s, agents |-> a]) :
        s \in {PyNone, PyDict([orchestrator |-> PyStr("loop-events")])},
        a \in DelegateFilters}

\* the delegation under way: its depth, the config of the session that
\* delegates next, and the agents value of the overlay merged last
Delegation(depth, config, filter) == [depth |-> depth, config |-> config, filter |-> filter]

InitDelegate ==
    /\ input \in [parent : Parents]
    /\ dirs = {}
    /\ files = [id \in SessionIds |-> EmptyDir]
    /\ temps = [id \in SessionIds |-> {}]
    /\ pc = "idle"
    /\ call = Delegation(0, input.parent, PyNone)
    /\ ret = Ret("none", "ok", NoVal)
    /\ ConcOff

\* "merge_configs(parent, overlay)" for the child session of a delegation
Delegate(overlay) ==
    /\ call.depth < MaxDepth
    /\ call' = Delegation(call.depth + 1, MergeConfigs(call.config, overlay),
                          AgentFilter(overlay))
    /\ ret' = Ret("merge", "ok", NoVal)
    /\ UNCHANGED <<input, dirs, files, temps, pc>>
    /\ UNCHANGED conc

NextDelegate == \E overlay \in DelegateOverlays : Delegate(overlay)

SpecDelegate == InitDelegate /\ [][NextDelegate]_vars

\* the names of the agents a config gives access to
AgentKeys(config) ==
    IF "agents" \in DOMAIN config.v /\ config.v["agents"].k = "dict"
    THEN DOMAIN config.v["agents"].v ELSE {}

\* C34: every delegation, whatever the agents value of its overlay, leaves
\* the child with agents that are among its parent's, so that down a chain
\* of delegations the agents within reach never grow
C34_DelegationNarrows ==
    [][AgentKeys(call'.config) \subseteq AgentKeys(call.config)]_vars

\* a second delegation whose overlay has a mapping for its agents value,
\* after a first one that narrowed the root's agents to one of them
C34_Witness ==
    /\ call.depth = MaxDepth
    /\ call.filter.k = "dict"
    /\ AgentKeys(input.parent) = {"foo", "bar"}
    /\ AgentKeys(call.config) = {"foo"}

(***************************************************************************)
(* SpecList: one process that saves sessions, among them one whose id      *)
(* starts with a dot, asks whether they exist, lists them, deletes them    *)
(* and cleans up.                                                          *)
(***************************************************************************)
\* 'sessions.sort(key=lambda x: x[1], reverse=True)': newest first
NewestFirst(listing) ==
    \A i, j \in 1..Len(listing) : i < j => input.mtime[listing[i]] >= input.mtime[listing[j]]

\* list_sessions(): the directories whose name does not start with ".",
\* sorted by modification time; directories of one modification time come
\* in the order iterdir gives them, which is any
ListSessions ==
    /\ pc = "idle"
    /\ \E listing \in [1..Cardinality(Candidates) -> Candidates] :
          /\ {listing[i] : i \in 1..Len(listing)} = Candidates
          /\ NewestFirst(listing)
          /\ ret' = Ret("list", "ok", listing)
    /\ UNCHANGED <<input, dirs, files, temps, pc, call>>
    /\ UNCHANGED conc

InitList ==
    /\ input \in {[days |-> days, now |-> Now, mtime |-> mtime] :
                     days \in {MaxDays - 1, MaxDays},
                     mtime \in [LifeIds -> {Now - MaxDays * DaySeconds + e : e \in {-1, 0}}]}
    /\ dirs = {}
    /\ files = [id \in LifeIds \cup BadIds |-> EmptyDir]
    /\ temps = [id \in LifeIds \cup BadIds |-> {}]
    /\ pc = "idle"
    /\ call = NoCall
    /\ ret = Ret("none", "ok", NoVal)
    /\ ConcOff

NextList ==
    \/ \E session_id \in LifeIds : Save(session_id, <<UserMsg>>, PlainMeta)
    \/ \E env \in {NoFault, WriteFault} : SaveTranscript(env)
    \/ SaveMetadata(NoFault)
    \/ \E session_id \in LifeIds : Exists(session_id)
    \/ ListSessions
    \/ \E session_id \in LifeIds : SessionsDelete(session_id, TRUE, FALSE, FALSE)
    \/ CleanupOldSessions(input.days, {}, FALSE)

SpecList == InitList /\ [][NextList]_vars

\* the sessions a save has written in full and nothing has deleted since
SavedSessions == {id \in dirs : FileExists(files[id][MetadataFile])}

\* C35 as stated: between calls every saved session is reported by exists,
\* is in what list_sessions returns, and is among the directories cleanup
\* removes once its modification time is before the cutoff.
C35_SavedIsSeen ==
    pc = "idle" =>
       \A id \in SavedSessions :
          /\ ExistsIn(id, dirs)
          /\ (ret.op = "list") => (\E i \in 1..Len(ret.val) : ret.val[i] = id)
          /\ (input.mtime[id] < CutoffTimestamp(input.now, input.days))
                => id \in Old(input.now, input.days)

\* the file holds what some save writes to it, whole
WholeSave(name, file) ==
    \E args \in SaveArgs :
       file = Text(IF name = TranscriptBackup
                   THEN WriteTranscript(args.transcript)
                   ELSE WriteMetadata(args.metadata))

\* C36 as stated: a backup file that exists holds the complete content of a
\* save, whatever saves, changes of the primary files from outside and loads
\* came before; no save puts unparseable content in its place.
C36_BackupIsWholeSave ==
    \A name \in {TranscriptBackup, MetadataBackup} :
       FileExists(files[Sid][name]) => WholeSave(name, files[Sid][name])

\* what load returns for the files one save wrote
LoadedTranscript(args) == ReadTranscript(Text(WriteTranscript(args.transcript))).val

LoadedMetadata(args) == ReadMetadata(Text(WriteMetadata(args.metadata))).val

\* C37 as stated: the transcript and the metadata one load returns were
\* written by the same save call, also after a save that raised and after
\* one of the primary files was corrupted; never the transcript of one save
\* with the metadata of another.
C37_LoadedPairFromOneSave ==
    (/\ ret.op = "load"
     /\ ret.res = "ok"
     /\ \E args \in SaveArgs : ret.val.transcript = LoadedTranscript(args)
     /\ \E args \in SaveArgs : ret.val.metadata = LoadedMetadata(args))
       => \E args \in SaveArgs :
             /\ ret.val.transcript = LoadedTranscript(args)
             /\ ret.val.metadata = LoadedMetadata(args)

(***************************************************************************)
(* SpecRepeat: the chains of SpecProv and chains whose last profile lists  *)
(* one module twice in its providers.                                      *)
(***************************************************************************)
Repeated ==
    PyDict([providers |->
               PyList(<<PyDict([module |-> PyStr("x"), source |-> PyStr("git+x2")]),
                        PyDict([module |-> PyStr("x"), source |-> PyStr("git+x3")])>>)])

RepeatChains ==
    UNION {[chain_dicts : {dicts \o <<Repeated>> : dicts \in [1..n -> Profiles]},
            chain_names : {SubSeq(ProfileNames, 1, n + 1)}] : n \in 1..(MaxChain - 1)}

InitRepeat ==
    /\ input \in Chains \cup RepeatChains
    /\ StoreInit
    /\ ConcOff

SpecRepeat == InitRepeat /\ [][NextProv]_vars

\* the place of a label in the chain
Position(label) == CHOOSE i \in 1..Len(input.chain_names) : input.chain_names[i] = label.v

IsChainLabel(label) ==
    label.k = "str" /\ \E i \in 1..Len(input.chain_names) : input.chain_names[i] = label.v

\* a provenance entry is a chain label, or a pair of chain labels of which
\* the second stands strictly earlier in the chain than the first
WellFormed(entry) ==
    IF entry.k = "tuple"
    THEN /\ Len(entry.v) = 2
         /\ IsChainLabel(entry.v[1])
         /\ IsChainLabel(entry.v[2])
         /\ Position(entry.v[2]) < Position(entry.v[1])
    ELSE IsChainLabel(entry)

\* C38 as stated: after the build every session field and every providers,
\* tools and hooks module of the effective config has a provenance entry,
\* and every entry is a chain label or a pair (current, previous) of chain
\* labels with previous strictly earlier in the chain than current.
C38_ProvenanceWellFormed ==
    pc = "built" =>
       LET effective == ret.val.effective_config.v
           recorded == ret.val.sources.v
       IN  /\ \A field \in DOMAIN effective["session"].v :
                 /\ field \in DOMAIN recorded["session"].v
                 /\ WellFormed(recorded["session"].v[field])
           /\ \A section \in ModuleSections :
                 \A id \in DOMAIN effective[section].v :
                    /\ id \in DOMAIN recorded[section].v
                    /\ WellFormed(recorded[section].v[id])

\* the profile at the chain position gives the module no source: it does not
\* list the module in the section, or lists it without a source
NoSourceGiven(section, id, i) ==
    i \in Listers(section, id, i) => ~GivesSource(section, id, i)

\* C39 as stated: a profile that gives no source for a module that already has
\* a provenance entry leaves the entry exactly as it was before the profile
\* was tracked, a pair (current, previous) recorded by an earlier
\* redefinition included.
C39_NoSourceKeepsEntry ==
    [][ProfileStep =>
          \A section \in ModuleSections :
             \A id \in DOMAIN call.sources.v[section].v :
                NoSourceGiven(section, id, call.i + 1)
                   => call'.sources.v[section].v[id] = call.sources.v[section].v[id]]_vars

====
